---- MODULE Spec2Model ----
(***************************************************************************)
(* A model of the event loop of rnnr.  The repository holds three          *)
(* generations of the loop, each modelled as its own state machine:        *)
(*                                                                         *)
(*   impl = "run"     Runner.run of rnnr/runner.py: one callback list per  *)
(*                    event, positional arguments, the _stopped flag and   *)
(*                    the stop function handed to EPOCH_FINISHED callbacks *)
(*   impl = "legacy"  Runner of rnnr/__init__.py: handlers on a state      *)
(*                    dict, the _running flag and the stop() method        *)
(*   impl = "resume"  Runner.resume / Runner._emit of rnnr/runner.py: the  *)
(*                    state-dict dispatch that stops on state['running']   *)
(*                                                                         *)
(* A step of a machine is one dispatch of an event (one call of            *)
(* _run_callbacks_on_* or of _emit) or one call of the batch processor.    *)
(* User callbacks are the environment: what a callback returns and whether *)
(* it requests a stop are inputs, drawn with \E.                           *)
(***************************************************************************)
EXTENDS Integers, Sequences, FiniteSets, TLC

VARIABLES
    impl,            \* which Runner is under execution
    \* ---- rnnr/runner.py, Runner.__init__ / Runner.run
    max_epoch,       \* self._max_epoch
    callbacks_on,    \* self._callbacks_on_<event>, one list per event
    stopped,         \* self._stopped: "unset" until _reset creates it
    stop_escaped,    \* a callback has received self._stop and may have kept it
    pc,              \* position of run()
    error,           \* the exception run() raised, "" if none
    batches,         \* the argument of run()
    i,               \* run's epoch counter
    j,               \* enumerate's batch index
    batch,           \* run's local batch
    boutput,         \* run's local boutput
    call_hist,       \* every callback / processor call made by the run() in
                     \* progress (or the last one), in order
    prev_run,        \* the run() calls already over, and how the last of them
                     \* went
    attached,        \* the attachments of rnnr/attachments.py attached to the
                     \* runner: their own fields
    \* ---- rnnr/__init__.py, Runner
    legacy,          \* the runner, the locals of its run() and its call log
    \* ---- rnnr/runner.py, Runner.on / Runner.resume / Runner._emit
    runner,          \* self._callbacks, self.state, the position of
                     \* run()/resume() and the call log
    \* ---- rnnr/handlers.py, rnnr/callbacks.py
    handlers         \* the handler or callback under execution: its fields,
                     \* the state it is called with and its call log

rvars == <<max_epoch, callbacks_on, stopped, stop_escaped, pc, error, batches,
           i, j, batch, boutput, call_hist, prev_run, attached>>

vars == <<impl, rvars, legacy, runner, handlers>>

\* What the machines other than Runner.run of rnnr/runner.py own.
frame_run == <<impl, legacy, runner, handlers>>

\* What the machines other than Runner of rnnr/__init__.py own.
frame_legacy == <<impl, rvars, runner, handlers>>

\* What the machines other than Runner.resume of rnnr/runner.py own.
frame_resume == <<impl, rvars, legacy, handlers>>

\* What the machines other than the handlers and callbacks of
\* rnnr/handlers.py and rnnr/callbacks.py own.
frame_handlers == <<impl, rvars, legacy, runner>>

----------------------------------------------------------------------------
(* Bounds of the model *)

MaxEpoch == 2        \* max_epoch ranges over 0..MaxEpoch
MaxBatches == 2      \* len(batches) ranges over 0..MaxBatches
MaxReruns == 1       \* run() is called again at most MaxReruns times
MaxPatience == 1     \* the patience of an EarlyStopper ranges over 0..MaxPatience
MaxCalls == 3        \* a handler is called at most MaxCalls times
MaxValue == 2        \* the values a handler is shown range over 0..MaxValue
MaxSaved == 2        \* the max_saved of a Checkpointer ranges over 0..MaxSaved
MaxRegistered == 3   \* user callbacks registered on one runner
MaxNArgs == 3        \* an EPOCH_FINISHED callback has 0..MaxNArgs parameters
MaxResumes == 1      \* calls of resume() that follow one run()

----------------------------------------------------------------------------
(* Python values *)

\* Python's None: the value of a call that returns nothing, and of an argument
\* the callback is not given.  Batch values are naturals, so it is none of them.
None == 0 - 1

\* No processor output (outputs are tuples).
NoOutput == <<>>

\* The batches iterated over: the k-th batch (1-based) is 2k+1, so [3, 5] for
\* two batches as in tests/test_runner.py.
Batches(n) == [k \in 1..n |-> 2 * k + 1]

\* The transformations a BATCH_STARTED callback may compute: batch + 1 and
\* batch * 2 (they do not commute), "none" for a callback that returns nothing.
Transforms == {"inc", "dbl", "none"}

\* cb(e, bi, b) of a BATCH_STARTED callback whose body is `fn`.
CallTransform(fn, b) ==
    CASE fn = "inc" -> b + 1
      [] fn = "dbl" -> b * 2
      [] OTHER      -> None

\* None + 1 and None * 2 raise TypeError.
TransformRaises(fn, b) == fn \in {"inc", "dbl"} /\ b = None

\* The processor self._on_batch(epoch, batch_idx, batch): on_batch of
\* tests/test_runner.py returns (epoch, batch_idx); the batch is kept too, so
\* that an output tells the batch it was computed from.
OnBatchOutput(e, bi, b) == <<e, bi, b>>

\* The concatenation of a sequence of sequences.
RECURSIVE Flatten(_)
Flatten(ss) == IF ss = <<>> THEN <<>> ELSE Head(ss) \o Flatten(Tail(ss))

----------------------------------------------------------------------------
(* Events and callbacks of rnnr/runner.py *)

RunEvents == {"STARTED", "EPOCH_STARTED", "BATCH_STARTED", "BATCH_FINISHED",
              "EPOCH_FINISHED", "FINISHED"}

\* A callback: id is its position in its event's list (the order of
\* registration), nargs its number of parameters, fn its body.
Callback(id, nargs, fn) == [id |-> id, nargs |-> nargs, fn |-> fn]

\* One call in call_hist: the callback, the arguments it was given (None or
\* NoOutput for an argument it is not given), what it returned, whether it was
\* handed the stop function, whether it requested the stop, and the exception
\* it raised ("" if it returned).
Call(ev, id, e, bi, b, bo, ret, got_stop, stop) ==
    [ev |-> ev, id |-> id, epoch |-> e, bi |-> bi, b |-> b, bo |-> bo,
     ret |-> ret, got_stop |-> got_stop, stop |-> stop, raised |-> ""]

\* The exception a user callback, a handler or a batch processor may raise.
UserError == "ValueError"

\* The call of a dispatch that raises, 0 if none does: any of the first n.
RaiseChoice(n) == 0..n

\* The calls that can request a stop when call x raises: those before it.  (A
\* call that requests the stop and then raises is not drawn.)
Before(x, n) == IF x > 0 THEN x - 1 ELSE n

\* for cb in cblist: cb(...), when call x raises: the exception leaves the
\* loop, the calls after x are not made.
CallsAroundRaise(calls, x) ==
    [k \in 1..Len(calls) |->
        IF k = x THEN [calls[k] EXCEPT !.raised = UserError] ELSE calls[k]]
CallsUpTo(calls, x) ==
    IF x = 0 THEN calls
    ELSE [k \in 1..x |->
            IF k = x THEN [calls[k] EXCEPT !.raised = UserError] ELSE calls[k]]

\* Where run() is after a dispatch in which call x raised, and the exception
\* its caller gets: there is no try statement in run() or in a dispatch.
PcAfter(x, next) == IF x > 0 THEN "raised" ELSE next

ErrorAfter(x, err) == IF x > 0 THEN UserError ELSE err

RECURSIVE SumLen(_, _)
SumLen(f, S) ==
    IF S = {} THEN 0
    ELSE LET x == CHOOSE y \in S : TRUE IN Len(f[x]) + SumLen(f, S \ {x})

\* User callbacks registered so far (the STARTED list also holds _reset).
NRegistered == SumLen(callbacks_on, RunEvents) - 1

Stopped == stopped = "yes"

----------------------------------------------------------------------------
(* LambdaReducer and SumReducer of rnnr/attachments.py *)

\* The reduction functions: SumReducer's lambda x, y: x + y, and for a
\* LambdaReducer one that is neither commutative nor associative,
\* lambda x, y: 2 * x + y.
Lambdas == {"sum", "twice_plus"}

ApplyLambda(lam, x, y) == IF lam = "sum" THEN x + y ELSE 2 * x + y

\* value(bo), the value of a batch output: here the epoch plus the batch.
GetValue(bo) == bo[1] + bo[3]

\* No reducer is attached.
NoReducer == [on |-> FALSE, lambda |-> "sum", result |-> None]

\* LambdaReducer.__init__(lambda_, value): self.result = None
NewReducer(lam) == [on |-> TRUE, lambda |-> lam, result |-> None]

\* LambdaReducer._reset(e): self.result = None
ReducerKept(r) == r
ReducerReset(r) == [r EXCEPT !.result = None]

\* LambdaReducer._update(e, bi, b, bo):
\* val = self._get_value(bo)
\* self.result = val if self.result is None else self._lambda(self.result, val)
ReducerUpdate(r, bo) ==
    [r EXCEPT !.result = IF @ = None THEN GetValue(bo)
                         ELSE ApplyLambda(r.lambda, @, GetValue(bo))]

----------------------------------------------------------------------------
(* EarlyStopper of rnnr/attachments.py *)

\* No EarlyStopper is attached.  asked is the history of what
\* should_reduce_patience returned in the calls of the run() in progress.
NoStopper == [on |-> FALSE, orig_patience |-> 0, curr_patience |-> 0,
              asked |-> <<>>]

\* EarlyStopper.__init__(should_reduce_patience, patience).  _curr_patience
\* is set by _reset only, which STARTED calls before any epoch ends: it is
\* given the value _reset gives it from the start.
NewStopper(patience) ==
    [on |-> TRUE, orig_patience |-> patience, curr_patience |-> patience,
     asked |-> <<>>]

\* EarlyStopper._reset(), as the STARTED callback:
\* self._curr_patience = self._orig_patience
StopperReset(st) ==
    [st EXCEPT !.curr_patience = st.orig_patience, !.asked = <<>>]

\* if self._curr_patience < 0: stop()
OutOfPatienceAtZero(curr_patience) == curr_patience <= 0
OutOfPatience(curr_patience) == curr_patience < 0

\* EarlyStopper._maybe_stop_early(e, stop), should_reduce_patience(e)
\* returning r: self._curr_patience -= 1 if r, else self._reset().
StopperAsked(st, r) ==
    [st EXCEPT !.curr_patience = IF r THEN @ - 1 ELSE st.orig_patience,
               !.asked = Append(@, r)]

----------------------------------------------------------------------------
(* The callbacks of the attachments, as the runner calls them *)

AttachmentFns == {"LambdaReducer._reset", "LambdaReducer._update",
                  "EarlyStopper._reset", "EarlyStopper._maybe_stop_early"}

\* What the call c of a callback does to the attachments: fn is the body of
\* the callback called, r what should_reduce_patience returns if it is asked.
\* A call that raised changed nothing.
AfterCall(att, fn, c, r) ==
    IF c.raised # "" THEN att
    ELSE IF fn = "LambdaReducer._reset"
         THEN [att EXCEPT !.reducer = ReducerReset(@)]
    ELSE IF fn = "LambdaReducer._update"
         THEN [att EXCEPT !.reducer = ReducerUpdate(@, c.bo)]
    ELSE IF fn = "EarlyStopper._reset"
         THEN [att EXCEPT !.stopper = StopperReset(@)]
    ELSE IF fn = "EarlyStopper._maybe_stop_early"
         THEN [att EXCEPT !.stopper = StopperAsked(@, r)]
    ELSE att

----------------------------------------------------------------------------
(* MeanReducer of rnnr/attachments.py *)

\* def __init__(self, lambda_, value) of LambdaReducer: the parameters after
\* self, none of them with a default.
LambdaReducerParams == <<"lambda_", "value">>

\* A call f(a1, ..., an, k1=..., ...) of a function with these parameters
\* raises TypeError when there are more positional arguments than parameters,
\* a keyword names no parameter or one that a positional argument has filled,
\* or a parameter is left without a value.
CallRaisesTypeError(params, npos, kws) ==
    \/ npos > Len(params)
    \/ \E kw \in kws : \A k \in 1..Len(params) : params[k] # kw
    \/ \E k \in 1..Len(params) : k <= npos /\ params[k] \in kws
    \/ \E k \in 1..Len(params) : k > npos /\ params[k] \notin kws

\* MeanReducer.__init__(name, value=..., size=...):
\* super().__init__(name, lambda x, y: x + y, value=value)
\* Two positional arguments and the keyword value.
NewMeanReducer ==
    IF CallRaisesTypeError(LambdaReducerParams, 2, {"value"})
    THEN "TypeError" ELSE "constructed"

----------------------------------------------------------------------------
(* Runner.__init__ of rnnr/runner.py *)

InitRunner ==
    /\ max_epoch \in 0..MaxEpoch
    /\ callbacks_on = [ev \in RunEvents |->
                         IF ev = "STARTED" THEN <<Callback(1, 0, "_reset")>>
                         ELSE <<>>]
    /\ stopped = "unset"
    /\ stop_escaped = FALSE
    /\ pc = "idle"
    /\ error = ""
    /\ batches = <<>>
    /\ i = 0
    /\ j = 0
    /\ batch = None
    /\ boutput = NoOutput
    /\ call_hist = <<>>
    /\ prev_run = [n |-> 0, callbacks_on |-> callbacks_on, call_hist |-> <<>>,
                   pc |-> "idle", error |-> "", asked |-> <<>>]
    /\ attached = [reducer |-> NoReducer, mean |-> "none", stopper |-> NoStopper]

\* cblist.append(cb) of the on_<event> methods.
PrependCallback(cblist, nargs, fn) ==
    <<Callback(Len(cblist) + 1, nargs, fn)>> \o cblist
AppendCallback(cblist, nargs, fn) ==
    Append(cblist, Callback(Len(cblist) + 1, nargs, fn))

Register(ev, nargs, fn) ==
    /\ impl = "run"
    /\ pc = "idle"
    /\ NRegistered + SumLen(runner.callbacks, DOMAIN runner.callbacks)
           < MaxRegistered
    /\ callbacks_on' = [callbacks_on EXCEPT ![ev] = AppendCallback(@, nargs, fn)]
    /\ UNCHANGED <<attached, prev_run, max_epoch, stopped, stop_escaped, pc, error,
                   batches, i, j,
                   batch, boutput, call_hist>>
    /\ UNCHANGED frame_run

on_started == Register("STARTED", 0, "user")

on_epoch_started == Register("EPOCH_STARTED", 1, "user")

on_batch_started == \E fn \in Transforms : Register("BATCH_STARTED", 3, fn)

on_batch_finished == Register("BATCH_FINISHED", 4, "user")

on_epoch_finished == \E n \in 0..MaxNArgs : Register("EPOCH_FINISHED", n, "user")

on_finished == Register("FINISHED", 0, "user")

\* LambdaReducer(lambda_, value).attach_on(runner), SumReducer(value) being
\* LambdaReducer(lambda x, y: x + y, value):
\* runner.on_epoch_started(self._reset); runner.on_batch_finished(self._update)
reducer_attach_on ==
    /\ impl = "run"
    /\ pc = "idle"
    /\ ~attached.reducer.on
    /\ NRegistered + SumLen(runner.callbacks, DOMAIN runner.callbacks) + 2
           <= MaxRegistered
    /\ \E lam \in Lambdas :
         attached' = [attached EXCEPT !.reducer = NewReducer(lam)]
    /\ callbacks_on' =
           [callbacks_on EXCEPT
              !["EPOCH_STARTED"] = AppendCallback(@, 1, "LambdaReducer._reset"),
              !["BATCH_FINISHED"] = AppendCallback(@, 4, "LambdaReducer._update")]
    /\ UNCHANGED <<prev_run, max_epoch, stopped, stop_escaped, pc, error,
                   batches, i, j, batch, boutput, call_hist>>
    /\ UNCHANGED frame_run

\* EarlyStopper(should_reduce_patience, patience).attach_on(runner):
\* runner.on_started(self._reset)
\* runner.on_epoch_finished(self._maybe_stop_early)
early_stopper_attach_on ==
    /\ impl = "run"
    /\ pc = "idle"
    /\ ~attached.stopper.on
    /\ NRegistered + SumLen(runner.callbacks, DOMAIN runner.callbacks) + 2
           <= MaxRegistered
    /\ \E patience \in 0..MaxPatience :
         attached' = [attached EXCEPT !.stopper = NewStopper(patience)]
    /\ callbacks_on' =
           [callbacks_on EXCEPT
              !["STARTED"] = AppendCallback(@, 0, "EarlyStopper._reset"),
              !["EPOCH_FINISHED"] =
                  AppendCallback(@, 2, "EarlyStopper._maybe_stop_early")]
    /\ UNCHANGED <<prev_run, max_epoch, stopped, stop_escaped, pc, error,
                   batches, i, j, batch, boutput, call_hist>>
    /\ UNCHANGED frame_run

\* MeanReducer(name) is constructed, to be attached to the runner.  An
\* exception of the constructor ends the program before run() is called.
mean_reducer_init ==
    /\ impl = "run"
    /\ pc = "idle"
    /\ attached.mean = "none"
    /\ attached' = [attached EXCEPT !.mean = NewMeanReducer]
    /\ pc' = IF NewMeanReducer = "TypeError" THEN "aborted" ELSE pc
    /\ error' = IF NewMeanReducer = "TypeError" THEN "TypeError" ELSE error
    /\ UNCHANGED <<prev_run, max_epoch, callbacks_on, stopped, stop_escaped,
                   batches, i, j, batch, boutput, call_hist>>
    /\ UNCHANGED frame_run

\* The body of the callback that the call c of the log is a call of.
FnOf(c) ==
    IF c.ev \in RunEvents
          /\ \E k \in 1..Len(callbacks_on[c.ev]) : callbacks_on[c.ev][k].id = c.id
    THEN LET cbs == callbacks_on[c.ev]
         IN cbs[CHOOSE k \in 1..Len(cbs) : cbs[k].id = c.id].fn
    ELSE "on_batch"

\* The attachments after the calls of one dispatch, made in order.
RECURSIVE AfterCalls(_, _, _)
AfterCalls(att, calls, r) ==
    IF calls = <<>> THEN att
    ELSE AfterCalls(AfterCall(att, FnOf(Head(calls)), Head(calls), r),
                    Tail(calls), r)

\* Of the callbacks of the attachments only _maybe_stop_early calls the stop
\* function, and it does when it is out of patience.
StopIsStoppers(att, c) ==
    (FnOf(c) \in AttachmentFns /\ c.raised = "") =>
        c.stop = (/\ FnOf(c) = "EarlyStopper._maybe_stop_early"
                  /\ OutOfPatience(att.stopper.curr_patience))

\* The callbacks of the attachments are among those a dispatch calls; a
\* dispatch calls each once at most.
\* should_reduce_patience(e) is deterministic as the callbacks are: asked
\* about the epoch it was asked about in the previous run(), it answers what
\* it answered then.
ReplaysAsked(r) ==
    LET k == Len(attached.stopper.asked) + 1
    IN (prev_run.n > 0 /\ k <= Len(prev_run.asked)) => r = prev_run.asked[k]

Attachments ==
    \E r \in BOOLEAN :
        /\ ReplaysAsked(r)
        /\ attached' = AfterCalls(attached,
                                  SubSeq(call_hist', Len(call_hist) + 1,
                                         Len(call_hist')), r)
        /\ \A p \in (Len(call_hist) + 1)..Len(call_hist') :
             StopIsStoppers(attached', call_hist'[p])

----------------------------------------------------------------------------
(* Runner.run of rnnr/runner.py *)

\* The callbacks of one dispatch that may request the stop, 0 for none of them:
\* self._stop is reachable only by code that was handed it, and a request made
\* when _stopped is already True changes nothing, so it is not drawn again.
StopChoice(n) == {0} \cup (IF stop_escaped /\ ~Stopped THEN 1..n ELSE {})

\* for cb in cblist: cb(*args), the s-th one requesting the stop.
CallAll(ev, cbs, e, bi, b, bo, s) ==
    [k \in 1..Len(cbs) |->
        Call(ev, cbs[k].id, e, bi, b, bo, None, FALSE, k = s)]

\* The last position of self._reset in a list, 0 if it is not in it.
LastReset(cbs) ==
    LET R == {k \in 1..Len(cbs) : cbs[k].fn = "_reset"}
    IN IF R = {} THEN 0 ELSE CHOOSE k \in R : \A m \in R : m <= k

\* _reset: self._stopped = False
ResetOnlyUnset(st) == IF st = "unset" THEN "no" ELSE st
reset(st) == "no"

\* Callbacks are deterministic: a call given what the call at the same place
\* of the previous run() was given requests the stop if and only if that one
\* did, and raises what that one raised.  (bo of the processor's entry is
\* what it returned, not an argument.)
SameArguments(c, d) ==
    /\ c.ev = d.ev
    /\ c.id = d.id
    /\ c.epoch = d.epoch
    /\ c.bi = d.bi
    /\ c.b = d.b
    /\ c.ev # "on_batch" => c.bo = d.bo
    /\ c.got_stop = d.got_stop

Replays ==
    \A p \in (Len(call_hist) + 1)..Len(call_hist') :
        (/\ prev_run.n > 0
         /\ p <= Len(prev_run.call_hist)
         /\ SameArguments(call_hist'[p], prev_run.call_hist[p])) =>
            /\ call_hist'[p].stop = prev_run.call_hist[p].stop
            /\ call_hist'[p].raised = prev_run.call_hist[p].raised

\* epoch = EpochId(i + 1): epochs are numbered from 1.
EpochIdFromZero(n) == n
EpochId(n) == n + 1

\* while not self._stopped and i < self._max_epoch
LoopIgnoresStop == i < max_epoch
LoopOneMore == stopped = "no" /\ i <= max_epoch
LoopContinues == stopped = "no" /\ i < max_epoch

\* run(batches): the call itself, up to the first dispatch.
run ==
    /\ impl = "run"
    /\ pc = "idle"
    /\ \E n \in 0..MaxBatches : batches' = Batches(n)
    /\ pc' = "started"
    /\ UNCHANGED <<attached, prev_run, max_epoch, callbacks_on, stopped,
                   stop_escaped, error, i, j,
                   batch, boutput, call_hist>>
    /\ UNCHANGED frame_run

\* self._run_callbacks_on_started(); i = 0.  _reset is one of the callbacks.
run_callbacks_on_started ==
    /\ impl = "run"
    /\ pc = "started"
    /\ LET cbs == callbacks_on["STARTED"]
           r == LastReset(cbs)
       IN \E x \in {0} \cup ((r + 1)..Len(cbs)) :
          \E s \in {0} \cup (IF stop_escaped THEN (r + 1)..Before(x, Len(cbs))
                              ELSE {}) :
            /\ call_hist' = call_hist \o
                   CallsUpTo(CallAll("STARTED", cbs, 0, None, None, NoOutput, s), x)
            /\ stopped' = IF s > 0 THEN "yes"
                          ELSE IF r > 0 THEN reset(stopped) ELSE stopped
            /\ pc' = PcAfter(x, "while")
            /\ error' = ErrorAfter(x, error)
    /\ i' = 0
    /\ UNCHANGED <<prev_run, max_epoch, callbacks_on, stop_escaped, batches, j,
                   batch, boutput>>
    /\ Attachments
    /\ Replays
    /\ UNCHANGED frame_run

\* while not self._stopped and i < self._max_epoch: the loop is entered;
\* epoch = EpochId(i); self._run_callbacks_on_epoch_started(epoch); the for loop
\* starts at j = 0.
run_callbacks_on_epoch_started ==
    /\ impl = "run"
    /\ pc = "while"
    /\ LoopContinues
    /\ LET cbs == callbacks_on["EPOCH_STARTED"]
       IN \E x \in RaiseChoice(Len(cbs)) :
          \E s \in StopChoice(Before(x, Len(cbs))) :
            /\ call_hist' = call_hist \o
                   CallsUpTo(CallAll("EPOCH_STARTED", cbs, EpochId(i), None, None,
                                     NoOutput, s), x)
            /\ stopped' = IF s > 0 THEN "yes" ELSE stopped
            /\ pc' = PcAfter(x, "for")
            /\ error' = ErrorAfter(x, error)
    /\ j' = 0
    /\ UNCHANGED <<prev_run, max_epoch, callbacks_on, stop_escaped, batches, i,
                   batch, boutput>>
    /\ Attachments
    /\ Replays
    /\ UNCHANGED frame_run

\* b after the first k callbacks of _run_callbacks_on_batch_started:
\* for cb in cblist: b = cb(e, bi, b).
RECURSIVE BatchAfter(_, _, _)
BatchAfter(cbs, k, b) ==
    IF k = 0 THEN b
    ELSE CallTransform(cbs[k].fn, BatchAfter(cbs, k - 1, b))

\* The value of b that callback k of the chain is called with, and the value
\* the chain returns to run().
BatchPassedUnchained(cbs, k, b) == b
BatchPassedTo(cbs, k, b) == BatchAfter(cbs, k - 1, b)

BatchReturned(cbs, b) == BatchAfter(cbs, Len(cbs), b)

\* The first callback of the chain that raises, Len(cbs) + 1 if none does.
FirstRaise(cbs, b) ==
    LET R == {k \in 1..Len(cbs) :
                TransformRaises(cbs[k].fn, BatchPassedTo(cbs, k, b))}
    IN IF R = {} THEN Len(cbs) + 1 ELSE CHOOSE k \in R : \A m \in R : k <= m

\* The calls of _run_callbacks_on_batch_started up to callback `last`.
BatchStartedCalls(cbs, e, bi, b, last, s) ==
    [k \in 1..last |->
        [Call("BATCH_STARTED", cbs[k].id, e, bi, BatchPassedTo(cbs, k, b),
              NoOutput,
              IF TransformRaises(cbs[k].fn, BatchPassedTo(cbs, k, b))
                 THEN None
                 ELSE CallTransform(cbs[k].fn, BatchPassedTo(cbs, k, b)),
              FALSE, k = s)
         EXCEPT !.raised =
             IF TransformRaises(cbs[k].fn, BatchPassedTo(cbs, k, b))
                THEN "TypeError" ELSE ""]]

\* for j, batch in enumerate(batches): the next batch is taken;
\* batch = self._run_callbacks_on_batch_started(epoch, batch_idx, batch).
run_callbacks_on_batch_started ==
    /\ impl = "run"
    /\ pc = "for"
    /\ j < Len(batches)
    /\ LET cbs == callbacks_on["BATCH_STARTED"]
           raw == batches[j + 1]
           bad == FirstRaise(cbs, raw)
           last == IF bad <= Len(cbs) THEN bad ELSE Len(cbs)
       IN \E x \in RaiseChoice(bad - 1) :
          \E s \in StopChoice(Before(x, last)) :
             /\ call_hist' = call_hist \o
                    CallsUpTo(BatchStartedCalls(cbs, EpochId(i), j, raw, last, s),
                              x)
             /\ stopped' = IF s > 0 THEN "yes" ELSE stopped
             /\ IF x > 0
                   THEN /\ pc' = "raised"
                        /\ error' = UserError
                        /\ batch' = BatchPassedTo(cbs, x, raw)
                   ELSE IF bad <= Len(cbs)
                   THEN /\ pc' = "raised"
                        /\ error' = "TypeError"
                        /\ batch' = BatchPassedTo(cbs, bad, raw)
                   ELSE /\ pc' = "on_batch"
                        /\ error' = error
                        /\ batch' = BatchReturned(cbs, raw)
    /\ UNCHANGED <<prev_run, max_epoch, callbacks_on, stop_escaped, batches, i, j, boutput>>
    /\ Attachments
    /\ Replays
    /\ UNCHANGED frame_run

\* boutput = self._on_batch(epoch, batch_idx, batch).  In its call_hist entry
\* bo is the output it returned.
on_batch ==
    /\ impl = "run"
    /\ pc = "on_batch"
    /\ \E x \in RaiseChoice(1) :
       \E s \in StopChoice(Before(x, 1)) :
        /\ call_hist' = call_hist \o
               CallsUpTo(<<Call("on_batch", 0, EpochId(i), j, batch,
                               IF x > 0 THEN NoOutput
                               ELSE OnBatchOutput(EpochId(i), j, batch),
                               None, FALSE, s = 1)>>, x)
        /\ stopped' = IF s > 0 THEN "yes" ELSE stopped
        /\ boutput' = IF x > 0 THEN boutput
                      ELSE OnBatchOutput(EpochId(i), j, batch)
        /\ pc' = PcAfter(x, "batch_finished")
        /\ error' = ErrorAfter(x, error)
    /\ UNCHANGED <<prev_run, max_epoch, callbacks_on, stop_escaped, batches, i, j,
                   batch>>
    /\ Attachments
    /\ Replays
    /\ UNCHANGED frame_run

\* self._run_callbacks_on_batch_finished(epoch, batch_idx, batch, boutput);
\* the for loop goes on to the next batch.
run_callbacks_on_batch_finished ==
    /\ impl = "run"
    /\ pc = "batch_finished"
    /\ LET cbs == callbacks_on["BATCH_FINISHED"]
       IN \E x \in RaiseChoice(Len(cbs)) :
          \E s \in StopChoice(Before(x, Len(cbs))) :
            /\ call_hist' = call_hist \o
                   CallsUpTo(CallAll("BATCH_FINISHED", cbs, EpochId(i), j, batch,
                                     boutput, s), x)
            /\ stopped' = IF s > 0 THEN "yes" ELSE stopped
            /\ pc' = PcAfter(x, "for")
            /\ error' = ErrorAfter(x, error)
            /\ j' = IF x > 0 THEN j ELSE j + 1
    /\ UNCHANGED <<prev_run, max_epoch, callbacks_on, stop_escaped, batches, i,
                   batch, boutput>>
    /\ Attachments
    /\ Replays
    /\ UNCHANGED frame_run

\* The first EPOCH_FINISHED callback whose number of parameters is neither 1
\* nor 2, Len(cbs) + 1 if there is none.
FirstBadArity(cbs) ==
    LET R == {k \in 1..Len(cbs) : cbs[k].nargs \notin {1, 2}}
    IN IF R = {} THEN Len(cbs) + 1 ELSE CHOOSE k \in R : \A m \in R : k <= m

\* Callback k of an EPOCH_FINISHED dispatch can request the stop: it is handed
\* self._stop, or a callback called before it was.
HoldsStop(cbs, k) ==
    stop_escaped \/ \E m \in 1..k : cbs[m].nargs = 2

\* The calls of _run_callbacks_on_epoch_finished up to callback `last`:
\* cb(e, self._stop) if nargs == 2, cb(e) if nargs == 1.
EpochFinishedCalls(cbs, e, last, s) ==
    [k \in 1..last |->
        Call("EPOCH_FINISHED", cbs[k].id, e, None, None, NoOutput, None,
             cbs[k].nargs = 2, k = s)]

\* The number of callbacks _run_callbacks_on_epoch_finished calls when it is
\* entered with _stopped = was_stopped, the s-th one requesting the stop
\* (s = 0: none) and the first one of a wrong arity at `bad`:
\* while not self._stopped and i < len(self._callbacks_on_epoch_finished).
EpochFinishedLastAll(cbs, was_stopped, s, bad) ==
    IF bad <= Len(cbs) /\ (s = 0 \/ was_stopped) THEN bad - 1 ELSE Len(cbs)
EpochFinishedLast(cbs, was_stopped, s, bad) ==
    IF was_stopped THEN 0
    ELSE IF s > 0 THEN s
    ELSE IF bad <= Len(cbs) THEN bad - 1
    ELSE Len(cbs)

\* else: raise TypeError(...) -- the loop gets to the first callback of a
\* wrong arity, at `bad` of n, when it was entered with _stopped False and no
\* callback before `bad` requested the stop (s = 0).
AritySkipped(was_stopped, s, bad, n) == FALSE
ArityRaises(was_stopped, s, bad, n) == ~was_stopped /\ s = 0 /\ bad <= n

\* The for loop is exhausted; self._run_callbacks_on_epoch_finished(epoch);
\* i += 1.
run_callbacks_on_epoch_finished ==
    /\ impl = "run"
    /\ pc = "for"
    /\ j >= Len(batches)
    /\ LET cbs == callbacks_on["EPOCH_FINISHED"]
           bad == FirstBadArity(cbs)
       IN \E x \in RaiseChoice(IF Stopped THEN 0 ELSE bad - 1) :
          \E s \in {0} \cup {k \in 1..(bad - 1) :
                                x = 0 /\ ~Stopped /\ HoldsStop(cbs, k)} :
            LET last == IF x > 0 THEN x
                        ELSE EpochFinishedLast(cbs, Stopped, s, bad)
                raises == ArityRaises(Stopped, s, bad, Len(cbs))
            IN /\ call_hist' = call_hist \o
                      CallsUpTo(EpochFinishedCalls(cbs, EpochId(i), last, s), x)
               /\ stopped' = IF s > 0 THEN "yes" ELSE stopped
               /\ stop_escaped' =
                      (stop_escaped \/ \E k \in 1..last : cbs[k].nargs = 2)
               /\ IF x > 0
                     THEN /\ pc' = "raised"
                          /\ error' = UserError
                          /\ i' = i
                     ELSE IF raises
                     THEN /\ pc' = "raised"
                          /\ error' = "TypeError"
                          /\ i' = i
                     ELSE /\ pc' = "while"
                          /\ error' = error
                          /\ i' = i + 1
    /\ UNCHANGED <<prev_run, max_epoch, callbacks_on, batches, j, batch, boutput>>
    /\ Attachments
    /\ Replays
    /\ UNCHANGED frame_run

\* for cb in self._callbacks_on_finished: cb()
CallsOnFinishedUnlessStopped(cbs, s) ==
    IF Stopped THEN <<>>
    ELSE CallAll("FINISHED", cbs, 0, None, None, NoOutput, s)
CallsOnFinished(cbs, s) ==
    CallAll("FINISHED", cbs, 0, None, None, NoOutput, s)

\* The while loop is left; self._run_callbacks_on_finished(); run returns.
\* Reading self._stopped before _reset created it raises AttributeError.
run_callbacks_on_finished ==
    /\ impl = "run"
    /\ pc = "while"
    /\ ~LoopContinues
    /\ IF stopped = "unset"
          THEN /\ pc' = "raised"
               /\ error' = "AttributeError"
               /\ UNCHANGED <<call_hist, stopped>>
          ELSE /\ LET cbs == callbacks_on["FINISHED"]
                  IN \E x \in RaiseChoice(Len(CallsOnFinished(cbs, 0))) :
                     \E s \in StopChoice(Before(x, Len(cbs))) :
                       /\ call_hist' = call_hist \o
                              CallsUpTo(CallsOnFinished(cbs, s), x)
                       /\ stopped' = IF s > 0 THEN "yes" ELSE stopped
                       /\ pc' = PcAfter(x, "done")
                       /\ error' = ErrorAfter(x, error)
    /\ UNCHANGED <<prev_run, max_epoch, callbacks_on, stop_escaped, batches, i, j, batch,
                   boutput>>
    /\ Attachments
    /\ Replays
    /\ UNCHANGED frame_run

\* run(batches) is called again on the same runner with the same batches,
\* after the previous call returned or raised: nothing of the runner is
\* created anew, the locals are those of the new call.
run_again ==
    /\ impl = "run"
    /\ pc \in {"done", "raised"}
    /\ prev_run.n < MaxReruns
    /\ prev_run' = [n |-> prev_run.n + 1, callbacks_on |-> callbacks_on,
                    call_hist |-> call_hist, pc |-> pc, error |-> error,
                    asked |-> attached.stopper.asked]
    /\ call_hist' = <<>>
    /\ error' = ""
    /\ pc' = "started"
    /\ i' = 0
    /\ j' = 0
    /\ batch' = None
    /\ boutput' = NoOutput
    /\ UNCHANGED <<attached, max_epoch, callbacks_on, stopped, stop_escaped,
                   batches>>
    /\ UNCHANGED frame_run

NextRun ==
    \/ on_started
    \/ on_epoch_started
    \/ on_batch_started
    \/ on_batch_finished
    \/ on_epoch_finished
    \/ on_finished
    \/ reducer_attach_on
    \/ early_stopper_attach_on
    \/ mean_reducer_init
    \/ run
    \/ run_again
    \/ run_callbacks_on_started
    \/ run_callbacks_on_epoch_started
    \/ run_callbacks_on_batch_started
    \/ on_batch
    \/ run_callbacks_on_batch_finished
    \/ run_callbacks_on_epoch_finished
    \/ run_callbacks_on_finished

----------------------------------------------------------------------------
(* Runner of rnnr/__init__.py *)

LegacyEvents == {"EPOCH_STARTED", "BATCH_STARTED", "BATCH_FINISHED",
                 "EPOCH_FINISHED"}

\* The state dict of run().
LegacyState(epoch, m, bs, b, output) ==
    [epoch |-> epoch, max_epoch |-> m, batches |-> bs, batch |-> b,
     output |-> output]

\* batch_fn(batch): a function of the batch that is never a batch value.
batch_fn(b) == b + 100

\* One entry of the log: id = 0 for the call of _emit itself (the emission),
\* id = k for the call of the event's k-th handler, ev = "batch_fn" for the
\* processor; epoch, batch and output are the state dict's at that moment, bi
\* is the position of the batch in batches, stop says the called code called
\* stop(), raised names the exception the called code raised ("" for none).
LegacyCall(ev, id, st, bi, stop) ==
    [ev |-> ev, id |-> id, epoch |-> st.epoch, bi |-> bi, batch |-> st.batch,
     output |-> st.output, stop |-> stop, raised |-> ""]

\* Runner.__init__
InitLegacy ==
    legacy = [handlers |-> [ev \in LegacyEvents |-> <<>>],
              running |-> FALSE,
              pc |-> "idle",
              epoch |-> 0,
              pos |-> 0,
              state |-> LegacyState(None, 0, <<>>, None, None),
              error |-> "",
              hist |-> <<>>]

\* self._handlers[event].append(handler): the handler is named by its place in
\* the order of registration.
PrependHandler(hs) == <<Len(hs) + 1>> \o hs
AppendHandler(hs) == Append(hs, Len(hs) + 1)

append_handler ==
    /\ impl = "legacy"
    /\ legacy.pc = "idle"
    /\ SumLen(legacy.handlers, LegacyEvents) < MaxRegistered
    /\ \E ev \in LegacyEvents :
         legacy' = [legacy EXCEPT !.handlers[ev] = AppendHandler(@)]
    /\ UNCHANGED frame_legacy

\* The handlers of one emission that may call stop(), 0 for none: stop() is a
\* public method, and a call of it when _running is already False changes
\* nothing, so it is not drawn again.
LegacyStopChoice(n) == {0} \cup (IF legacy.running THEN 1..n ELSE {})

\* _emit(event, state): for handler in self._handlers[event]: handler(state).
\* The entries it adds to the log, the s-th handler calling stop().
EmitUntilStopped(ev, hs, st, bi, s) ==
    <<LegacyCall(ev, 0, st, bi, FALSE)>> \o
        [k \in 1..(IF s > 0 THEN s ELSE Len(hs)) |->
            LegacyCall(ev, hs[k], st, bi, k = s)]
Emit(ev, hs, st, bi, s) ==
    <<LegacyCall(ev, 0, st, bi, FALSE)>> \o
        [k \in 1..Len(hs) |-> LegacyCall(ev, hs[k], st, bi, k = s)]

\* _emit with the x-th handler raising (x = 0: none): the for loop has no
\* try, the handlers after the x-th are not called and the exception leaves
\* _emit.  The first entry is the emission itself.
EmitUpTo(ev, hs, st, bi, s, x) ==
    CallsUpTo(Emit(ev, hs, st, bi, s), IF x > 0 THEN x + 1 ELSE 0)

\* stop(): self._running = False
RunningAfterIgnoredStop(running, s) == running
RunningAfter(running, s) == IF s > 0 THEN FALSE ELSE running

\* for epoch in range(1, max_epoch + 1): whether there is a next epoch.
HasNextEpochAndOneMore(epoch, m) == epoch <= m
HasNextEpoch(epoch, m) == epoch < m

\* run(batch_fn, batches, max_epoch), up to the epoch loop.
legacy_run ==
    /\ impl = "legacy"
    /\ legacy.pc = "idle"
    /\ \E m \in 0..MaxEpoch, n \in 0..MaxBatches :
         legacy' = [legacy EXCEPT
                      !.running = TRUE,
                      !.state = LegacyState(None, m, Batches(n), None, None),
                      !.epoch = 0,
                      !.pc = IF HasNextEpoch(0, m) THEN "epoch" ELSE "done"]
    /\ UNCHANGED frame_legacy

\* state['epoch'] = epoch; self._emit(Event.EPOCH_STARTED, state); the batch
\* loop starts.
emit_epoch_started ==
    /\ impl = "legacy"
    /\ legacy.pc = "epoch"
    /\ LET hs == legacy.handlers["EPOCH_STARTED"]
           st == [legacy.state EXCEPT !.epoch = legacy.epoch + 1]
       IN \E x \in RaiseChoice(Len(hs)) :
          \E s \in LegacyStopChoice(Before(x, Len(hs))) :
            legacy' = [legacy EXCEPT
                         !.epoch = @ + 1,
                         !.state = st,
                         !.hist = @ \o EmitUpTo("EPOCH_STARTED", hs, st, None, s, x),
                         !.running = RunningAfter(@, s),
                         !.pos = 0,
                         !.pc = PcAfter(x, "batch"),
                         !.error = ErrorAfter(x, @)]
    /\ UNCHANGED frame_legacy

\* for batch in batches: state['batch'] = batch;
\* self._emit(Event.BATCH_STARTED, state)
emit_batch_started ==
    /\ impl = "legacy"
    /\ legacy.pc = "batch"
    /\ legacy.pos < Len(legacy.state.batches)
    /\ LET hs == legacy.handlers["BATCH_STARTED"]
           st == [legacy.state EXCEPT !.batch = legacy.state.batches[legacy.pos + 1]]
       IN \E x \in RaiseChoice(Len(hs)) :
          \E s \in LegacyStopChoice(Before(x, Len(hs))) :
            legacy' = [legacy EXCEPT
                         !.state = st,
                         !.hist = @ \o EmitUpTo("BATCH_STARTED", hs, st,
                                                legacy.pos, s, x),
                         !.running = RunningAfter(@, s),
                         !.pc = PcAfter(x, "batch_fn"),
                         !.error = ErrorAfter(x, @)]
    /\ UNCHANGED frame_legacy

\* output = batch_fn(batch); state['output'] = output.  The log entry is the
\* call of batch_fn, made before the output is stored.
call_batch_fn ==
    /\ impl = "legacy"
    /\ legacy.pc = "batch_fn"
    /\ \E x \in RaiseChoice(1) :
       \E s \in LegacyStopChoice(Before(x, 1)) :
         legacy' = [legacy EXCEPT
                      !.hist = @ \o CallsUpTo(<<LegacyCall("batch_fn", 0,
                                                           legacy.state,
                                                           legacy.pos, s = 1)>>, x),
                      !.state.output = IF x > 0 THEN @
                                       ELSE batch_fn(legacy.state.batch),
                      !.running = RunningAfter(@, s),
                      !.pc = PcAfter(x, "batch_finished"),
                      !.error = ErrorAfter(x, @)]
    /\ UNCHANGED frame_legacy

\* if not self._running: break -- where run() goes after BATCH_FINISHED.
AfterBatchFinishedNoBreak(running) == "batch"
AfterBatchFinishedReturn(running) == IF ~running THEN "done" ELSE "batch"
AfterBatchFinished(running) == IF ~running THEN "epoch_finished" ELSE "batch"

\* self._emit(Event.BATCH_FINISHED, state); state['output'] = None;
\* if not self._running: break
emit_batch_finished ==
    /\ impl = "legacy"
    /\ legacy.pc = "batch_finished"
    /\ LET hs == legacy.handlers["BATCH_FINISHED"]
       IN \E x \in RaiseChoice(Len(hs)) :
          \E s \in LegacyStopChoice(Before(x, Len(hs))) :
            legacy' = [legacy EXCEPT
                         !.hist = @ \o EmitUpTo("BATCH_FINISHED", hs, legacy.state,
                                                legacy.pos, s, x),
                         !.state.output = IF x > 0 THEN @ ELSE None,
                         !.running = RunningAfter(@, s),
                         !.pos = IF x > 0 THEN @ ELSE @ + 1,
                         !.pc = PcAfter(x, AfterBatchFinished(
                                               RunningAfter(legacy.running, s))),
                         !.error = ErrorAfter(x, @)]
    /\ UNCHANGED frame_legacy

\* if not self._running: break -- where run() goes after EPOCH_FINISHED.
AfterEpochFinished(running, epoch, m) ==
    IF ~running \/ ~HasNextEpoch(epoch, m) THEN "done" ELSE "epoch"

\* state['batch'] = None, after the batch loop.
BatchLeftSet(b) == b
BatchCleared(b) == None

\* The batch loop is over (exhausted or broken out of): state['batch'] = None;
\* self._emit(Event.EPOCH_FINISHED, state); if not self._running: break
emit_epoch_finished ==
    /\ impl = "legacy"
    /\ \/ legacy.pc = "epoch_finished"
       \/ legacy.pc = "batch" /\ legacy.pos >= Len(legacy.state.batches)
    /\ LET hs == legacy.handlers["EPOCH_FINISHED"]
           st == [legacy.state EXCEPT !.batch = BatchCleared(@)]
       IN \E x \in RaiseChoice(Len(hs)) :
          \E s \in LegacyStopChoice(Before(x, Len(hs))) :
            legacy' = [legacy EXCEPT
                         !.state = st,
                         !.hist = @ \o EmitUpTo("EPOCH_FINISHED", hs, st, None, s, x),
                         !.running = RunningAfter(@, s),
                         !.pc = PcAfter(x, AfterEpochFinished(
                                               RunningAfter(legacy.running, s),
                                               legacy.epoch,
                                               legacy.state.max_epoch)),
                         !.error = ErrorAfter(x, @)]
    /\ UNCHANGED frame_legacy

NextLegacy ==
    \/ append_handler
    \/ legacy_run
    \/ emit_epoch_started
    \/ emit_batch_started
    \/ call_batch_fn
    \/ emit_batch_finished
    \/ emit_epoch_finished

----------------------------------------------------------------------------
(* Runner.on, Runner.resume and Runner._emit of rnnr/runner.py: the state   *)
(* dict.  resume() continues a run that run(batches, max_epoch) started and  *)
(* calls _run_epoch() for the batches of one epoch; neither is in the        *)
(* sources, both are modelled from the specification and from what           *)
(* tests/test_runner.py asserts of them.                                     *)

\* rnnr/event.py
PublicEvents == {"STARTED", "EPOCH_STARTED", "BATCH", "EPOCH_FINISHED",
                 "FINISHED"}

PrivateEvents == {"_ETIMER_STARTED", "_ETIMER_FINISHED", "_PBAR_CREATED",
                  "_PBAR_UPDATED", "_PBAR_CLOSED", "_REDUCER_RESET",
                  "_REDUCER_UPDATED", "_REDUCER_COMPUTED"}

Events == PublicEvents \cup PrivateEvents

\* The state dict: batches, max_epoch, n_iters, running, epoch, batch, and
\* _batches_iter as the number of batches the iterator has yielded.  A key that
\* is not set yet holds the value run() first gives it (None for batch, 0 for
\* _batches_iter).
RunState(bs, m) ==
    [batches |-> bs, max_epoch |-> m, n_iters |-> 0, running |-> TRUE,
     epoch |-> 0, batch |-> None, batches_iter |-> 0]

\* One entry of the log, for one call callback(state): run counts the calls of
\* run() and resume() made so far, by is the function that emits, epoch, batch
\* and n_iters are the state's at the call, pos is the place of the batch in
\* batches (1-based, 0 before the first batch of an epoch), stop says the
\* callback set state['running'] to False.
StateCall(r, by, ev, id, st, stop) ==
    [run |-> r, by |-> by, ev |-> ev, id |-> id, epoch |-> st.epoch,
     batch |-> st.batch, n_iters |-> st.n_iters, pos |-> st.batches_iter,
     stop |-> stop]

\* Runner.__init__: self.state = {}, self._callbacks = defaultdict(list)
InitStateRunner ==
    runner = [callbacks |-> [ev \in Events |-> <<>>],
              state |-> [RunState(<<>>, 0) EXCEPT !.running = FALSE],
              pc |-> "idle",
              runs |-> 0,
              repeat_last_batch |-> FALSE,
              error |-> "",
              hist |-> <<>>]

\* The callbacks registered through on() by the user, and the name of the next
\* one: a callback is named by its place in the order of registration.
NOn == SumLen(runner.callbacks, PublicEvents)

NewCallbacks(n) == [k \in 1..n |-> NOn + k]

\* The three ways of calling on(): on(event, cb), on(event, [c1, ..., cn]) and
\* on(event)(cb).
OnForms == {"single", "list", "decorator"}

\* cblist.extend(callbacks)
ExtendReversed(cblist, cs) == cblist \o [k \in 1..Len(cs) |-> cs[Len(cs) + 1 - k]]
Extend(cblist, cs) == cblist \o cs

\* self._callbacks[event] after on(event, callbacks): a list extends cblist, a
\* single callback makes extend raise TypeError and is appended, the decorator
\* appends the callback it is applied to.
OnCallbacks(cblist, form, cs) ==
    IF form = "list" THEN Extend(cblist, cs) ELSE Append(cblist, cs[1])

\* on(event, callbacks) on a runner that is not running.  What a runner holds
\* in all its lists together is bounded.
on ==
    /\ \/ impl = "resume" /\ runner.pc = "idle"
       \/ impl = "run" /\ pc = "idle"
    /\ \E ev \in PublicEvents, form \in OnForms,
          n \in 0..(MaxRegistered - NOn - NRegistered) :
         /\ form = "list" \/ n = 1
         /\ runner' = [runner EXCEPT
                         !.callbacks[ev] = OnCallbacks(@, form, NewCallbacks(n))]
    /\ UNCHANGED frame_resume

\* The callbacks of EpochTimer and of ProgressBar of rnnr/attachments.py, by
\* the event attach_on registers them on: _start and _finish, _create,
\* _update and _close.
EpochTimerCallbacks ==
    ("_ETIMER_STARTED" :> 111) @@ ("_ETIMER_FINISHED" :> 112)

ProgressBarCallbacks ==
    ("_PBAR_CREATED" :> 101) @@ ("_PBAR_UPDATED" :> 102) @@
    ("_PBAR_CLOSED" :> 103)

\* What ProgressBar keeps: bars is the number of tqdm bars created and not
\* closed, key says state['_pbar_n_items_so_far'] is present.
NoPbar == [bars |-> 0, key |-> FALSE]

\* The effect of a callback of ProgressBar: _create makes a bar and sets the
\* key, _update leaves both, _close closes self._pbar and pops the key.
PbarAfter(pb, id) ==
    IF id = ProgressBarCallbacks["_PBAR_CREATED"]
    THEN [bars |-> pb.bars + 1, key |-> TRUE]
    ELSE IF id = ProgressBarCallbacks["_PBAR_CLOSED"]
    THEN [bars |-> pb.bars - 1, key |-> FALSE]
    ELSE pb

\* runner.on(event, callback) for every callback of an attachment.
AttachedOn(callbacks, attachment) ==
    [ev \in Events |->
        IF ev \in DOMAIN attachment
        THEN Append(callbacks[ev], attachment[ev])
        ELSE callbacks[ev]]

\* EpochTimer().attach_on(runner), before or after the user's callbacks.
epoch_timer_attach_on ==
    /\ impl = "resume"
    /\ runner.pc = "idle"
    /\ runner.callbacks["_ETIMER_STARTED"] = <<>>
    /\ runner' = [runner EXCEPT
                    !.callbacks = AttachedOn(@, EpochTimerCallbacks)]
    /\ UNCHANGED frame_resume

\* ProgressBar().attach_on(runner), before or after the user's callbacks.
progress_bar_attach_on ==
    /\ impl = "resume"
    /\ runner.pc = "idle"
    /\ runner.callbacks["_PBAR_CREATED"] = <<>>
    /\ runner' = [runner EXCEPT
                    !.callbacks = AttachedOn(@, ProgressBarCallbacks)]
    /\ UNCHANGED frame_resume

\* The callback of a step that sets state['running'] to False: <<x, k>> for
\* the k-th callback of the x-th emission of the step, <<0, 0>> for none.  Only
\* a callback that is called can do it, and _emit calls none once running is
\* False; the callbacks of the private events are those of the attachments,
\* which never do.
NoStop == <<0, 0>>

StopPoints(evs, running) ==
    {NoStop} \cup
    (IF running
     THEN {sp \in (1..Len(evs)) \X (1..MaxRegistered) :
             /\ evs[sp[1]] \in PublicEvents
             /\ sp[2] <= Len(runner.callbacks[evs[sp[1]]])}
     ELSE {})

\* state['running'] when the x-th emission of a step begins.
RunningAt(running, sp, x) == running /\ (sp = NoStop \/ x <= sp[1])

\* state['running'] when the step is over.
RunningAfterStep(running, sp) == running /\ sp = NoStop

\* _emit(event, state): for callback in self._callbacks[event]:
\*     if not state["running"]: break
\*     callback(state)
\* The place of the last callback called, of n registered, when the s-th sets
\* running to False (s = 0: none does).
EmitLastUnchecked(n, running, s) == n
EmitLast(n, running, s) == IF ~running THEN 0 ELSE IF s > 0 THEN s ELSE n

\* The calls one _emit makes.
EmitCalls(r, by, ev, cbs, st, running, s) ==
    [k \in 1..EmitLast(Len(cbs), running, s) |->
        StateCall(r, by, ev, cbs[k], st, k = s)]

\* The calls of consecutive _emit's on the same state.
EmitEach(r, by, evs, st, sp) ==
    Flatten([x \in 1..Len(evs) |->
               EmitCalls(r, by, evs[x], runner.callbacks[evs[x]], st,
                         RunningAt(st.running, sp, x),
                         IF sp[1] = x THEN sp[2] ELSE 0)])

\* run(batches, max_epoch): the state is initialised, STARTED is emitted and
\* the epoch loop follows.
state_run ==
    /\ impl = "resume"
    /\ runner.pc = "idle"
    /\ \E m \in 0..MaxEpoch, n \in 0..MaxBatches :
         LET st == RunState(Batches(n), m)
             evs == <<"STARTED">>
         IN \E sp \in StopPoints(evs, TRUE) :
              runner' = [runner EXCEPT
                           !.runs = @ + 1,
                           !.state = [st EXCEPT
                                        !.running = RunningAfterStep(TRUE, sp)],
                           !.hist = @ \o EmitEach(runner.runs + 1, "run", evs, st, sp),
                           !.pc = "epochs"]
    /\ UNCHANGED frame_resume

\* finished_last_epoch = state["n_iters"] % len(state["batches"]) == 0
FinishedLastEpoch(st) == st.n_iters % Len(st.batches) = 0

\* What resume() emits before _run_epoch() when the last epoch is unfinished.
ResumeEventsWithoutRepeat(repeat_last_batch) ==
    <<"_ETIMER_STARTED", "_PBAR_CREATED">>
ResumeEvents(repeat_last_batch) ==
    <<"_ETIMER_STARTED", "_PBAR_CREATED">> \o
    (IF repeat_last_batch
     THEN <<"BATCH", "_REDUCER_UPDATED", "_PBAR_UPDATED">>
     ELSE <<>>)

\* resume(repeat_last_batch), up to _run_epoch() or to the epoch loop.  The
\* state is the one the last run() or resume() left (pickled and loaded or
\* not), the callbacks are the same ones registered again.
resume ==
    /\ impl = "resume"
    /\ runner.pc = "done"
    /\ runner.runs <= MaxResumes
    /\ \E repeat_last_batch \in BOOLEAN :
         LET st == [runner.state EXCEPT !.running = TRUE]
             evs == ResumeEvents(repeat_last_batch)
             runs == runner.runs + 1
         IN IF Len(st.batches) = 0
            THEN runner' = [runner EXCEPT
                              !.runs = runs,
                              !.repeat_last_batch = repeat_last_batch,
                              !.state = st,
                              !.error = "ZeroDivisionError",
                              !.pc = "raised"]
            ELSE IF FinishedLastEpoch(st)
            THEN runner' = [runner EXCEPT
                              !.runs = runs,
                              !.repeat_last_batch = repeat_last_batch,
                              !.state = st,
                              !.pc = "epochs"]
            ELSE \E sp \in StopPoints(evs, TRUE) :
                   runner' = [runner EXCEPT
                                !.runs = runs,
                                !.repeat_last_batch = repeat_last_batch,
                                !.state = [st EXCEPT
                                             !.running = RunningAfterStep(TRUE, sp)],
                                !.hist = @ \o EmitEach(runs, "resume", evs, st, sp),
                                !.pc = "epoch"]
    /\ UNCHANGED frame_resume

\* What _run_epoch() emits for one batch.
BatchEvents == <<"BATCH", "_REDUCER_UPDATED", "_PBAR_UPDATED">>

\* One batch of _run_epoch(): while running, the next batch of
\* state["_batches_iter"] becomes state["batch"], the batch events are emitted
\* and n_iters is incremented.
run_epoch ==
    /\ impl = "resume"
    /\ runner.pc = "epoch"
    /\ runner.state.running
    /\ runner.state.batches_iter < Len(runner.state.batches)
    /\ LET st == [runner.state EXCEPT
                    !.batch = runner.state.batches[runner.state.batches_iter + 1],
                    !.batches_iter = @ + 1]
       IN \E sp \in StopPoints(BatchEvents, TRUE) :
            runner' = [runner EXCEPT
                         !.state = [st EXCEPT
                                      !.n_iters = @ + 1,
                                      !.running = RunningAfterStep(TRUE, sp)],
                         !.hist = @ \o EmitEach(runner.runs, "_run_epoch", BatchEvents,
                                            st, sp)]
    /\ UNCHANGED frame_resume

\* What resume() emits after _run_epoch().
EpochFinishedEventsTimerFirst ==
    <<"_ETIMER_FINISHED", "_PBAR_CLOSED", "_REDUCER_COMPUTED", "EPOCH_FINISHED">>
EpochFinishedEvents ==
    <<"_PBAR_CLOSED", "_REDUCER_COMPUTED", "EPOCH_FINISHED", "_ETIMER_FINISHED">>

\* _run_epoch() returns (no batch is left, or running is False) and the end of
\* the epoch is emitted.
resume_epoch_finished ==
    /\ impl = "resume"
    /\ runner.pc = "epoch"
    /\ \/ ~runner.state.running
       \/ runner.state.batches_iter >= Len(runner.state.batches)
    /\ LET st == runner.state
       IN \E sp \in StopPoints(EpochFinishedEvents, st.running) :
            runner' = [runner EXCEPT
                         !.state.running = RunningAfterStep(st.running, sp),
                         !.hist = @ \o EmitEach(runner.runs, "resume",
                                            EpochFinishedEvents, st, sp),
                         !.pc = "epochs"]
    /\ UNCHANGED frame_resume

\* while state["running"] and state["epoch"] < state["max_epoch"]
EpochLoopContinues(st) == st.running /\ st.epoch < st.max_epoch

\* What resume() emits at the start of an epoch.
EpochStartedEvents ==
    <<"_ETIMER_STARTED", "EPOCH_STARTED", "_REDUCER_RESET", "_PBAR_CREATED">>

\* state["epoch"] += 1, the start of the epoch is emitted,
\* state["_batches_iter"] = iter(state["batches"])
resume_epoch_started ==
    /\ impl = "resume"
    /\ runner.pc = "epochs"
    /\ EpochLoopContinues(runner.state)
    /\ LET st == [runner.state EXCEPT !.epoch = @ + 1]
       IN \E sp \in StopPoints(EpochStartedEvents, TRUE) :
            runner' = [runner EXCEPT
                         !.state = [st EXCEPT
                                      !.running = RunningAfterStep(TRUE, sp),
                                      !.batches_iter = 0],
                         !.hist = @ \o EmitEach(runner.runs, "resume",
                                            EpochStartedEvents, st, sp),
                         !.pc = "epoch"]
    /\ UNCHANGED frame_resume

\* self._emit(Event.FINISHED, state); state["running"] = False
resume_finished ==
    /\ impl = "resume"
    /\ runner.pc = "epochs"
    /\ ~EpochLoopContinues(runner.state)
    /\ LET st == runner.state
           evs == <<"FINISHED">>
       IN \E sp \in StopPoints(evs, st.running) :
            runner' = [runner EXCEPT
                         !.state.running = FALSE,
                         !.hist = @ \o EmitEach(runner.runs, "resume", evs, st, sp),
                         !.pc = "done"]
    /\ UNCHANGED frame_resume

NextResume ==
    \/ on
    \/ epoch_timer_attach_on
    \/ progress_bar_attach_on
    \/ state_run
    \/ resume
    \/ run_epoch
    \/ resume_epoch_finished
    \/ resume_epoch_started
    \/ resume_finished

----------------------------------------------------------------------------
(* ImprovementHandlerMixin of rnnr/handlers.py *)

\* The values of state[value_key]: a number n, which zip() refuses with a
\* TypeError, or a sequence of numbers.  xs holds the number or the numbers.
Number(n) == [iterable |-> FALSE, xs |-> <<n>>]
Pair(a, b) == [iterable |-> TRUE, xs |-> <<a, b>>]

\* The values one handler is shown are all numbers or all pairs.
ValuesOf(shape) ==
    IF shape = "number" THEN {Number(n) : n \in 0..MaxValue}
    ELSE {Pair(a, b) : a, b \in 0..1}

\* self.best_value: <<>> is None, <<v>> the value v.
NoBest == <<>>

\* The eps of a handler: the numbers are integers, over which an eps of 1
\* stands for every eps in (0, 1], the default of 1e-4 among them.
EpsChoices == {0, 1}

\* _better(x, y, mode) and _worse(x, y, mode)
Better(x, y, mode, eps) ==
    IF mode = "min" THEN x <= y - eps ELSE x >= y + eps

Worse(x, y, mode, eps) ==
    IF mode = "min" THEN x >= y + eps ELSE x <= y - eps

\* The loop of _improved over zip(value, self.best_value, modes), from the
\* k-th triple on; modes is [self._mode] * len(value).
RECURSIVE ImprovedFrom(_, _, _, _, _)
ImprovedFrom(k, xs, bs, mode, eps) ==
    IF k > Len(xs) \/ k > Len(bs) THEN FALSE
    ELSE IF Better(xs[k], bs[k], mode, eps) THEN TRUE
    ELSE IF Worse(xs[k], bs[k], mode, eps) THEN FALSE
    ELSE ImprovedFrom(k + 1, xs, bs, mode, eps)

\* _improved(value)
Improved(best_value, value, mode, eps) ==
    IF best_value = NoBest THEN TRUE
    ELSE IF ~value.iterable \/ ~best_value[1].iterable
         THEN Better(value.xs[1], best_value[1].xs[1], mode, eps)
    ELSE ImprovedFrom(1, value.xs, best_value[1].xs, mode, eps)

----------------------------------------------------------------------------
(* EarlyStopper of rnnr/handlers.py *)

\* No handler is constructed.
ParkedHandlers == handlers = [kind |-> "none"]

\* EarlyStopper(patience, value_key, mode, eps), and the runner of the
\* states it is called with.  calls is the history of its calls.
InitEarlyStopper ==
    \E patience \in 0..MaxPatience, mode \in {"min", "max"},
       eps \in EpsChoices, shape \in {"number", "pair"} :
        handlers = [kind |-> "EarlyStopper",
                    shape |-> shape,
                    mode |-> mode,
                    eps |-> eps,
                    best_value |-> NoBest,
                    patience |-> patience,
                    n_bad_values |-> 0,
                    running |-> TRUE,
                    calls |-> <<>>]

\* self._n_bad_values after a call
NBadNeverReset(n_bad_values, improved) ==
    IF improved THEN n_bad_values ELSE n_bad_values + 1
NBadAfter(n_bad_values, improved) ==
    IF improved THEN 0 ELSE n_bad_values + 1

\* EarlyStopper.__call__(state), state[value_key] being value;
\* state['runner'].stop() is self._running = False.
early_stopper_call ==
    /\ impl = "handlers"
    /\ handlers.kind = "EarlyStopper"
    /\ Len(handlers.calls) < MaxCalls
    /\ \E value \in ValuesOf(handlers.shape) :
         LET improved == Improved(handlers.best_value, value,
                                  handlers.mode, handlers.eps)
             n == NBadAfter(handlers.n_bad_values, improved)
             stop == n > handlers.patience
         IN handlers' =
                [handlers EXCEPT
                   !.best_value = IF improved THEN <<value>> ELSE @,
                   !.n_bad_values = n,
                   !.running = IF stop THEN FALSE ELSE @,
                   !.calls = Append(@, [value |-> value, stop |-> stop])]
    /\ UNCHANGED frame_handlers

----------------------------------------------------------------------------
(* maybe_stop_early of rnnr/callbacks.py *)

\* state.get(key, default): None stands for a key the state does not have.
Get(value, default) == IF value = None THEN default ELSE value

\* maybe_stop_early(check=..., patience=..., counter=...), and the state its
\* callback is called with: state[counter] is not there yet, and the state
\* is of a runner that is running or not.  calls is the history of the calls.
InitMaybeStopEarly ==
    \E patience \in 0..MaxPatience, running \in BOOLEAN :
        handlers = [kind |-> "maybe_stop_early",
                    patience |-> patience,
                    state |-> [check |-> None, counter |-> None,
                               running |-> running],
                    calls |-> <<>>]

\* n = (state.get(counter, 0) + 1) if not state[check] else 0
CounterCountsAll(counter, check) ==
    IF ~check THEN Get(counter, 0) + 1 ELSE Get(counter, 0)
CounterAfter(counter, check) ==
    IF ~check THEN Get(counter, 0) + 1 ELSE 0

\* callback(state), another callback having set state[check] to check.
maybe_stop_early_call ==
    /\ impl = "handlers"
    /\ handlers.kind = "maybe_stop_early"
    /\ Len(handlers.calls) < MaxCalls
    /\ \E check \in BOOLEAN :
         LET n == CounterAfter(handlers.state.counter, check)
             running == IF n > handlers.patience THEN FALSE
                        ELSE handlers.state.running
         IN handlers' =
                [handlers EXCEPT
                   !.state = [check |-> check, counter |-> n,
                              running |-> running],
                   !.calls = Append(@, [check |-> check,
                                        counter |-> n,
                                        was_running |-> handlers.state.running,
                                        running |-> running])]
    /\ UNCHANGED frame_handlers

----------------------------------------------------------------------------
(* Checkpointer of rnnr/handlers.py; __call__, _save and _delete of the
   Checkpointer of rnnr/callbacks.py are the same code *)

\* The filenames of a checkpoint, the keys of state[checkpoint_key]: a
\* caller may checkpoint the optimizer on some calls only.
CheckpointKeys == {{"model.pkl", "opt.pkl"}, {"model.pkl"}}

\* value_key=None
NoKey == ""

\* Checkpointer(save_dir, max_saved=..., value_key=..., mode=..., eps=...)
\* over an empty save_dir: disk is the set of <<num, name>> for which
\* save_dir / f'{num}_{name}' exists.  calls is the history of the calls.
InitCheckpointer ==
    \E max_saved \in 0..MaxSaved, value_key \in {NoKey, "loss"},
       mode \in {"min", "max"}, eps \in EpsChoices,
       shape \in {"number", "pair"} :
        /\ value_key = NoKey => (mode = "min" /\ eps = 1 /\ shape = "number")
        /\ handlers = [kind |-> "Checkpointer",
                       shape |-> shape,
                       mode |-> mode,
                       eps |-> eps,
                       best_value |-> NoBest,
                       max_saved |-> max_saved,
                       value_key |-> value_key,
                       n_calls |-> 0,
                       deque |-> <<>>,
                       disk |-> {},
                       error |-> "",
                       calls |-> <<>>]

\* _should_save(state), state[value_key] being value
ShouldSaveAlways(value_key, best_value, value, mode, eps) == TRUE
ShouldSave(value_key, best_value, value, mode, eps) ==
    IF value_key = NoKey THEN TRUE
    ELSE Improved(best_value, value, mode, eps)

\* _should_delete()
ShouldDeleteLate(deque, max_saved) == Len(deque) > max_saved + 1
ShouldDelete(deque, max_saved) == Len(deque) > max_saved

\* The files _save(ckpt) writes, the default save_fn creating each.
Saved(disk, n_calls, filenames) ==
    disk \cup {<<n_calls, name>> : name \in filenames}

\* The files left by _delete(filenames), num being self._deque.popleft().
Deleted(disk, num, filenames) ==
    disk \ {<<num, name>> : name \in filenames}

\* Checkpointer.__call__(state), state[checkpoint_key] having the keys
\* filenames and state[value_key] being value.
checkpointer_call ==
    /\ impl = "handlers"
    /\ handlers.kind = "Checkpointer"
    /\ Len(handlers.calls) < MaxCalls
    /\ \E filenames \in CheckpointKeys,
          value \in IF handlers.value_key = NoKey THEN {Number(0)}
                    ELSE ValuesOf(handlers.shape) :
         LET n_calls == handlers.n_calls + 1
             save == ShouldSave(handlers.value_key, handlers.best_value,
                                value, handlers.mode, handlers.eps)
             deque1 == IF save THEN Append(handlers.deque, n_calls)
                       ELSE handlers.deque
             disk1 == IF save THEN Saved(handlers.disk, n_calls, filenames)
                      ELSE handlers.disk
             delete == ShouldDelete(deque1, handlers.max_saved)
             deque2 == IF delete THEN Tail(deque1) ELSE deque1
             disk2 == IF delete THEN Deleted(disk1, Head(deque1), filenames)
                      ELSE disk1
         IN handlers' =
                [handlers EXCEPT
                   !.n_calls = n_calls,
                   !.best_value =
                       IF handlers.value_key # NoKey /\ save
                       THEN <<value>> ELSE @,
                   !.deque = deque2,
                   !.disk = disk2,
                   !.error = IF Len(deque2) <= handlers.max_saved THEN @
                             ELSE "AssertionError",
                   !.calls = Append(@, [value |-> value,
                                        filenames |-> filenames,
                                        saved |-> save])]
    /\ UNCHANGED frame_handlers

NextHandlers ==
    \/ early_stopper_call
    \/ maybe_stop_early_call
    \/ checkpointer_call

----------------------------------------------------------------------------
(* Specifications: one per Runner, and all of them side by side *)

\* A runner of rnnr/runner.py that is constructed and never run.
ParkedRunner == InitRunner /\ max_epoch = 0

\* Runner.run of rnnr/runner.py
InitRun ==
    impl = "run" /\ InitRunner /\ InitLegacy /\ InitStateRunner /\ ParkedHandlers

\* on() is a method of the same Runner.
NextRunner == NextRun \/ on

Spec == InitRun /\ [][NextRunner]_vars

\* Runner of rnnr/__init__.py
InitLegacyRun ==
    /\ impl = "legacy"
    /\ ParkedRunner /\ InitLegacy /\ InitStateRunner /\ ParkedHandlers

SpecLegacy == InitLegacyRun /\ [][NextLegacy]_vars

\* Runner.resume of rnnr/runner.py
InitResume ==
    /\ impl = "resume"
    /\ ParkedRunner /\ InitLegacy /\ InitStateRunner /\ ParkedHandlers

SpecResume == InitResume /\ [][NextResume]_vars

\* The program instantiates one of the runners.
InitAll == InitRun \/ InitLegacyRun \/ InitResume

NextAll == NextRunner \/ NextLegacy \/ NextResume

SpecAll == InitAll /\ [][NextAll]_vars

\* The handlers of rnnr/handlers.py and the callbacks of rnnr/callbacks.py,
\* called as a runner calls them.
InitHandlers ==
    /\ impl = "handlers"
    /\ ParkedRunner /\ InitLegacy /\ InitStateRunner
    /\ (InitEarlyStopper \/ InitMaybeStopEarly \/ InitCheckpointer)

SpecHandlers == InitHandlers /\ [][NextHandlers]_vars

----------------------------------------------------------------------------
(* Reading call_hist *)

IsPrefix(a, b) == Len(a) <= Len(b) /\ \A p \in 1..Len(a) : a[p] = b[p]

\* What identifies a call: the event, the callback, the epoch and batch index.
Key(c) == <<c.ev, c.id, c.epoch, c.bi>>

HistKeys == [p \in 1..Len(call_hist) |-> Key(call_hist[p])]

\* All callbacks of an event, in the order of the event's list.
KeysOf(ev, e, bi) ==
    [k \in 1..Len(callbacks_on[ev]) |-> <<ev, callbacks_on[ev][k].id, e, bi>>]

\* One batch: BATCH_STARTED callbacks, the processor, BATCH_FINISHED callbacks.
BatchKeys(e, bi) ==
    KeysOf("BATCH_STARTED", e, bi) \o <<(<<"on_batch", 0, e, bi>>)>>
        \o KeysOf("BATCH_FINISHED", e, bi)

\* One epoch over n batches, indices 0..n-1.
EpochKeys(e, n) ==
    KeysOf("EPOCH_STARTED", e, None)
        \o Flatten([k \in 1..n |-> BatchKeys(e, k - 1)])
        \o KeysOf("EPOCH_FINISHED", e, None)

\* A whole run of m epochs over n batches.
RunKeys(m, n) ==
    KeysOf("STARTED", 0, None)
        \o Flatten([e \in 1..m |-> EpochKeys(e, n)])
        \o KeysOf("FINISHED", 0, None)

StopRequested == \E p \in 1..Len(call_hist) : call_hist[p].stop

\* The positions of call_hist at which an event's callbacks were called.
CallsOf(ev) == {p \in 1..Len(call_hist) : call_hist[p].ev = ev}

----------------------------------------------------------------------------
(* C1..C10: the order of the calls of Runner.run, rnnr/runner.py *)

\* C1: with no stop request, run() calls the callbacks in exactly the order
\* STARTED; for each epoch 1..max_epoch: EPOCH_STARTED, then for each batch
\* index 0..N-1: BATCH_STARTED, the processor, BATCH_FINISHED; EPOCH_FINISHED;
\* and FINISHED last.  While run() is under way call_hist is a prefix of that
\* order, and when run() has returned it is the whole of it.
C1_CallOrder ==
    (pc # "idle" /\ ~StopRequested) =>
        /\ IsPrefix(HistKeys, RunKeys(max_epoch, Len(batches)))
        /\ pc = "done" => HistKeys = RunKeys(max_epoch, Len(batches))

\* Two epochs of two batches have run to the end without a stop request, with
\* callbacks on a batch event, on an epoch event and on FINISHED.
C1_Witness ==
    /\ pc = "done"
    /\ ~StopRequested
    /\ max_epoch = 2
    /\ Len(batches) = 2
    /\ Len(callbacks_on["BATCH_STARTED"]) = 1
    /\ Len(callbacks_on["EPOCH_FINISHED"]) = 1
    /\ Len(callbacks_on["FINISHED"]) = 1

\* C2: a run() that returns has called each FINISHED callback exactly once, and
\* after every other call of the run; before run() is at its end (where a
\* FINISHED callback may raise) no FINISHED callback has been called.
C2_FinishedOnceLast ==
    LET n == Len(callbacks_on["FINISHED"])
        h == Len(call_hist)
    IN /\ pc = "done" =>
            /\ h >= n
            /\ \A k \in 1..n :
                 /\ call_hist[h - n + k].ev = "FINISHED"
                 /\ call_hist[h - n + k].id = callbacks_on["FINISHED"][k].id
            /\ \A p \in 1..(h - n) : call_hist[p].ev # "FINISHED"
       /\ pc \notin {"done", "raised"} => CallsOf("FINISHED") = {}

\* A run that was stopped has returned, and it has FINISHED callbacks.
C2_Witness ==
    /\ pc = "done"
    /\ StopRequested
    /\ Len(callbacks_on["FINISHED"]) = 2

\* The EPOCH_FINISHED calls made for epoch e to the callback whose id is k.
EpochFinishedCallsOf(e, k) ==
    {p \in CallsOf("EPOCH_FINISHED") :
        call_hist[p].epoch = e /\ call_hist[p].id = k}

StoppedBeforeEpochFinished(e) ==
    \E p \in 1..Len(call_hist) :
        /\ call_hist[p].stop
        /\ call_hist[p].epoch = e
        /\ call_hist[p].ev # "EPOCH_FINISHED"

\* The EPOCH_FINISHED call of epoch e that invoked the stop function.
EpochFinishedStoppers(e) ==
    {p \in CallsOf("EPOCH_FINISHED") :
        call_hist[p].epoch = e /\ call_hist[p].stop}

C7_StopInEpochFinished ==
    \A p \in CallsOf("EPOCH_FINISHED") :
        call_hist[p].stop =>
            /\ \A q \in 1..Len(call_hist) : call_hist[q].epoch <= call_hist[p].epoch
            /\ \/ pc \in {"while", "done"}
               \/ /\ pc = "raised"
                  /\ call_hist[Len(call_hist)].ev = "FINISHED"
                  /\ call_hist[Len(call_hist)].raised = error
            /\ pc = "done" =>
                 \A k \in 1..Len(callbacks_on["FINISHED"]) :
                    Cardinality({q \in CallsOf("FINISHED") :
                        call_hist[q].id = callbacks_on["FINISHED"][k].id}) = 1

\* The stop function was invoked in EPOCH_FINISHED of epoch 1 of a run of two
\* epochs over two batches, and run() has returned.
C7_Witness ==
    /\ pc = "done"
    /\ max_epoch = 2
    /\ Len(batches) = 2
    /\ Len(callbacks_on["FINISHED"]) = 1
    /\ EpochFinishedStoppers(1) # {}

\* The last processor call before position p of call_hist.
LastOnBatchBefore(p) ==
    CHOOSE q \in CallsOf("on_batch") :
        q < p /\ \A r \in CallsOf("on_batch") : r < p => r <= q

\* Calls p - 1 and p are BATCH_STARTED calls for the same batch.
SameChain(p) ==
    /\ p > 1
    /\ call_hist[p - 1].ev = "BATCH_STARTED"
    /\ call_hist[p - 1].epoch = call_hist[p].epoch
    /\ call_hist[p - 1].bi = call_hist[p].bi

\* C10: the first BATCH_STARTED callback is called with the raw batch, each
\* later one with the value the one before it returned; the processor is called
\* with the value the last one returned, which is cn(...c1(batch)...), after the
\* whole chain; and every BATCH_FINISHED callback is called with the batch and
\* the output of that processor call.
C10_BatchChain ==
    \A p \in 1..Len(call_hist) :
        LET c == call_hist[p]
            cbs == callbacks_on["BATCH_STARTED"]
        IN /\ c.ev = "BATCH_STARTED" =>
                c.b = IF SameChain(p) THEN call_hist[p - 1].ret
                      ELSE batches[c.bi + 1]
           /\ c.ev = "on_batch" =>
                /\ c.b = BatchAfter(cbs, Len(cbs), batches[c.bi + 1])
                /\ IF Len(cbs) = 0 THEN c.b = batches[c.bi + 1]
                   ELSE /\ SameChain(p)
                        /\ call_hist[p - 1].id = cbs[Len(cbs)].id
                        /\ c.b = call_hist[p - 1].ret
           /\ c.ev = "BATCH_FINISHED" =>
                /\ \E q \in CallsOf("on_batch") : q < p
                /\ c.b = call_hist[LastOnBatchBefore(p)].b
                /\ c.bo = call_hist[LastOnBatchBefore(p)].bo
                /\ c.epoch = call_hist[LastOnBatchBefore(p)].epoch
                /\ c.bi = call_hist[LastOnBatchBefore(p)].bi

\* Batch 3 went through batch + 1 and then batch * 2: the processor and a
\* BATCH_FINISHED callback were called with 8.
C10_Witness ==
    /\ Len(callbacks_on["BATCH_STARTED"]) = 2
    /\ \E p \in CallsOf("on_batch") : call_hist[p].b = 8
    /\ \E p \in CallsOf("BATCH_FINISHED") :
         call_hist[p].b = 8 /\ call_hist[p].bo = OnBatchOutput(1, 0, 8)

----------------------------------------------------------------------------
(* C3, C4, C6: stop() in Runner.run of rnnr/__init__.py *)

LegacyHist == legacy.hist

\* The positions of the log at which `ev` was emitted (the calls of _emit).
EmissionsOf(ev) ==
    {p \in 1..Len(LegacyHist) : LegacyHist[p].ev = ev /\ LegacyHist[p].id = 0}

\* The positions of the log at which stop() was called while a batch was being
\* handled: by a BATCH_STARTED handler, by batch_fn or by a BATCH_FINISHED
\* handler.
StopsInBatch ==
    {p \in 1..Len(LegacyHist) :
        /\ LegacyHist[p].stop
        /\ LegacyHist[p].ev \in {"BATCH_STARTED", "batch_fn", "BATCH_FINISHED"}}

\* C3: when stop() is called while batch k of epoch e is being handled, no
\* BATCH_STARTED and no EPOCH_STARTED is emitted afterwards (no batch k+1, no
\* epoch after e); run() goes on through BATCH_FINISHED of batch k and
\* EPOCH_FINISHED of epoch e to its end: once it is past the batch,
\* BATCH_FINISHED has been emitted for batch k of epoch e, and once it has
\* returned, EPOCH_FINISHED has been emitted for epoch e after the stop.
\* Nothing but an exception of a handler or of batch_fn called after the stop
\* ends the run earlier.
C3_StopInBatch ==
    \A p \in StopsInBatch :
        LET c == LegacyHist[p]
        IN /\ \A q \in EmissionsOf("BATCH_STARTED") \cup EmissionsOf("EPOCH_STARTED") :
                q < p
           /\ \/ legacy.pc \in {"batch_fn", "batch_finished", "epoch_finished",
                               "done"}
              \/ /\ legacy.pc = "raised"
                 /\ LegacyHist[Len(LegacyHist)].raised = legacy.error
                 /\ Len(LegacyHist) > p
           /\ legacy.pc \in {"epoch_finished", "done"} =>
                \E q \in EmissionsOf("BATCH_FINISHED") :
                    /\ LegacyHist[q].epoch = c.epoch
                    /\ LegacyHist[q].bi = c.bi
           /\ legacy.pc = "done" =>
                \E q \in EmissionsOf("EPOCH_FINISHED") :
                    q > p /\ LegacyHist[q].epoch = c.epoch

\* batch_fn called stop() at the first batch of epoch 1 of a run of two epochs
\* over two batches, and run() has returned.
C3_Witness ==
    /\ legacy.pc = "done"
    /\ legacy.state.max_epoch = 2
    /\ Len(legacy.state.batches) = 2
    /\ \E p \in StopsInBatch :
         /\ LegacyHist[p].ev = "batch_fn"
         /\ LegacyHist[p].epoch = 1
         /\ LegacyHist[p].bi = 0

IsEpochMark(c) == c.id = 0 /\ c.ev \in {"EPOCH_STARTED", "EPOCH_FINISHED"}

\* The emissions of EPOCH_STARTED and EPOCH_FINISHED, in order.
EpochMarks == SelectSeq(LegacyHist, IsEpochMark)

\* C4: the emissions of EPOCH_STARTED and EPOCH_FINISHED alternate, epoch by
\* epoch: EPOCH_STARTED(1), EPOCH_FINISHED(1), EPOCH_STARTED(2), ...; every
\* EPOCH_STARTED(e) has its one EPOCH_FINISHED(e) before the next
\* EPOCH_STARTED and before run() returns, wherever stop() was called.
C4_EpochFinishedFollows ==
    /\ \A p \in 1..Len(EpochMarks) :
         /\ EpochMarks[p].ev =
                IF p % 2 = 1 THEN "EPOCH_STARTED" ELSE "EPOCH_FINISHED"
         /\ EpochMarks[p].epoch = (p + 1) \div 2
    /\ legacy.pc \in {"epoch", "done"} => Len(EpochMarks) % 2 = 0

\* stop() was called by an EPOCH_STARTED handler of epoch 1 of a run of two
\* epochs over two batches; run() has returned after one EPOCH_STARTED and one
\* EPOCH_FINISHED.
C4_Witness ==
    /\ legacy.pc = "done"
    /\ legacy.state.max_epoch = 2
    /\ Len(legacy.state.batches) = 2
    /\ Len(EpochMarks) = 2
    /\ \E p \in 1..Len(LegacyHist) :
         LegacyHist[p].stop /\ LegacyHist[p].ev = "EPOCH_STARTED"

\* C6: when stop() is called by an EPOCH_STARTED handler of epoch e, nothing of
\* a batch happens in epoch e (no BATCH_STARTED, no batch_fn, no
\* BATCH_FINISHED), and EPOCH_FINISHED is emitted for e before run() returns.
C6_StopInEpochStartedSkipsBatches ==
    \A p \in 1..Len(LegacyHist) :
        (LegacyHist[p].stop /\ LegacyHist[p].ev = "EPOCH_STARTED") =>
            /\ \A q \in 1..Len(LegacyHist) :
                 LegacyHist[q].epoch = LegacyHist[p].epoch =>
                    LegacyHist[q].ev \notin
                        {"BATCH_STARTED", "batch_fn", "BATCH_FINISHED"}
            /\ legacy.pc = "done" =>
                 \E q \in EmissionsOf("EPOCH_FINISHED") :
                    q > p /\ LegacyHist[q].epoch = LegacyHist[p].epoch

----------------------------------------------------------------------------
(* C9: dispatch order is registration order *)

\* Calls p - 1 and p of call_hist belong to the same dispatch.
SameDispatch(p) ==
    /\ p > 1
    /\ call_hist[p - 1].ev = call_hist[p].ev
    /\ call_hist[p - 1].epoch = call_hist[p].epoch
    /\ call_hist[p - 1].bi = call_hist[p].bi

\* C9: a callback's id is its place in the order of registration on its event.
\* Every list keeps that order, and every dispatch calls the callbacks in it: a
\* dispatch starts with the event's first callback and each further call is to
\* the callback registered next, so that B registered after A is never called
\* before A is.  This holds for the on_* lists of rnnr/runner.py and for the
\* handlers of rnnr/__init__.py.
C9_DispatchInRegistrationOrder ==
    /\ \A ev \in RunEvents :
         \A k \in 1..Len(callbacks_on[ev]) : callbacks_on[ev][k].id = k
    /\ \A p \in 1..Len(call_hist) :
         call_hist[p].ev # "on_batch" =>
            \/ call_hist[p].id = 1
            \/ SameDispatch(p) /\ call_hist[p - 1].id = call_hist[p].id - 1
    /\ \A ev \in LegacyEvents :
         \A k \in 1..Len(legacy.handlers[ev]) : legacy.handlers[ev][k] = k
    /\ \A p \in 1..Len(LegacyHist) :
         LegacyHist[p].id > 0 =>
            /\ p > 1
            /\ LegacyHist[p - 1].ev = LegacyHist[p].ev
            /\ LegacyHist[p - 1].id = LegacyHist[p].id - 1

\* Two EPOCH_FINISHED callbacks were called, in the order of their
\* registration, in each of two epochs.
C9_Witness ==
    /\ pc = "done"
    /\ Len(callbacks_on["EPOCH_FINISHED"]) = 2
    /\ \A e \in 1..2 :
         \E p \in CallsOf("EPOCH_FINISHED") :
            /\ call_hist[p].epoch = e
            /\ call_hist[p].id = 2
            /\ call_hist[p - 1].id = 1

----------------------------------------------------------------------------
(* C8: state['running'] = False under Runner._emit *)

StateHist == runner.hist

\* The calls in which an EPOCH_STARTED or a BATCH callback set
\* state['running'] to False.
StopsInEpoch ==
    {p \in 1..Len(StateHist) :
        StateHist[p].stop /\ StateHist[p].ev \in {"EPOCH_STARTED", "BATCH"}}

\* The batch iterations begun when the call c was made: those n_iters had
\* counted, and the batch in flight, which _run_epoch counts once its events
\* are emitted (the batch that resume() repeats was counted by the run before).
BatchesBegun(c) == IF c.by = "_run_epoch" THEN c.n_iters + 1 ELSE c.n_iters

\* The batches of the epoch taken from the iterator when the call c was made:
\* the iterator of an epoch is created after EPOCH_STARTED is emitted.
BatchesTaken(c) == IF c.ev = "EPOCH_STARTED" THEN 0 ELSE c.pos

----------------------------------------------------------------------------
(* C11, C12: Runner.on of rnnr/runner.py *)

\* The events that both on() accepts and run() dispatches.
OnRunEvents == PublicEvents \cap RunEvents

\* The dispatches of an event that a run() over max_epoch epochs makes when
\* no stop is requested.
DispatchesOf(ev) == IF ev \in {"STARTED", "FINISHED"} THEN 1 ELSE max_epoch

\* C11: a callback registered through on(event, ...) is invoked by run() at
\* every dispatch of the event, as one registered through on_<event> is: when
\* a run() in which no stop was requested has returned, each event has had
\* one call per dispatch for every callback registered on it, through either
\* method.
C11_OnCallbacksInvoked ==
    (impl = "run" /\ pc = "done" /\ ~StopRequested) =>
        \A ev \in OnRunEvents :
            Cardinality(CallsOf(ev)) =
                DispatchesOf(ev)
                    * (Len(callbacks_on[ev]) + Len(runner.callbacks[ev]))

\* on(event, c1), ..., on(event, cn), made in that order.
RECURSIVE OnEach(_, _)
OnEach(cblist, cs) ==
    IF cs = <<>> THEN cblist
    ELSE OnEach(OnCallbacks(cblist, "single", <<Head(cs)>>), Tail(cs))

\* C12: a call of on() that changes the list of an event leaves the registry
\* as the calls on(event, c1), ..., on(event, cn), made in that order, would:
\* the new callbacks follow the ones the list held, in the order given, and
\* the lists of the other events are unchanged.
C12_OnListAsSingles ==
    [][\A ev \in PublicEvents :
          runner.callbacks'[ev] # runner.callbacks[ev] =>
              runner.callbacks' =
                  [runner.callbacks EXCEPT
                     ![ev] = OnEach(@, NewCallbacks(Len(runner.callbacks'[ev])
                                                    - Len(runner.callbacks[ev])))]
      ]_vars

\* on(BATCH, [c2, c3]) has been called on a runner whose BATCH list held c1.
C12_Witness ==
    /\ impl = "resume"
    /\ runner.pc = "idle"
    /\ runner.callbacks["BATCH"] = <<1, 2, 3>>

----------------------------------------------------------------------------
(* C13: what an unstopped Runner.run of rnnr/__init__.py emits *)

IsLegacyMark(c) == c.id = 0

\* The emissions and the calls of batch_fn, in order, each as
\* <<event, epoch, position of the batch>>.
LegacyMarks ==
    LET ms == SelectSeq(LegacyHist, IsLegacyMark)
    IN [p \in 1..Len(ms) |-> <<ms[p].ev, ms[p].epoch, ms[p].bi>>]

\* What epoch e over n batches is expected to emit.
LegacyEpochMarks(e, n) ==
    <<<<"EPOCH_STARTED", e, None>>>>
        \o Flatten([k \in 1..n |->
                      << <<"BATCH_STARTED", e, k - 1>>, <<"batch_fn", e, k - 1>>,
                         <<"BATCH_FINISHED", e, k - 1>> >>])
        \o <<<<"EPOCH_FINISHED", e, None>>>>

LegacyRunMarks(m, n) == Flatten([e \in 1..m |-> LegacyEpochMarks(e, n)])

LegacyStopCalled == \E p \in 1..Len(LegacyHist) : LegacyHist[p].stop

\* C13: with max_epoch = M, N batches and no call of stop(), run() emits, per
\* epoch 1..M, EPOCH_STARTED, then per batch BATCH_STARTED, the call of
\* batch_fn and BATCH_FINISHED of that batch, then EPOCH_FINISHED: what it has
\* emitted is at every moment a prefix of that sequence and is all of it when
\* run() has returned, so that there are M EPOCH_STARTED, M EPOCH_FINISHED,
\* M*N BATCH_STARTED, M*N BATCH_FINISHED and M*N calls of batch_fn.
C13_LegacyEmissionCounts ==
    (impl = "legacy" /\ legacy.pc # "idle" /\ ~LegacyStopCalled) =>
        LET m == legacy.state.max_epoch
            n == Len(legacy.state.batches)
        IN /\ IsPrefix(LegacyMarks, LegacyRunMarks(m, n))
           /\ legacy.pc = "done" =>
                /\ LegacyMarks = LegacyRunMarks(m, n)
                /\ Cardinality(EmissionsOf("EPOCH_STARTED")) = m
                /\ Cardinality(EmissionsOf("EPOCH_FINISHED")) = m
                /\ Cardinality(EmissionsOf("BATCH_STARTED")) = m * n
                /\ Cardinality(EmissionsOf("BATCH_FINISHED")) = m * n
                /\ Cardinality(EmissionsOf("batch_fn")) = m * n

\* An unstopped run of two epochs over two batches, with handlers, has
\* returned.
C13_Witness ==
    /\ impl = "legacy"
    /\ legacy.pc = "done"
    /\ ~LegacyStopCalled
    /\ legacy.state.max_epoch = 2
    /\ Len(legacy.state.batches) = 2
    /\ legacy.handlers["BATCH_STARTED"] # <<>>
    /\ legacy.handlers["BATCH_FINISHED"] # <<>>
    /\ Cardinality(EmissionsOf("batch_fn")) = 4

----------------------------------------------------------------------------
(* C14: n_iters during Runner.run of rnnr/runner.py *)

\* The dispatches of BATCH_FINISHED made so far: one for every call of the
\* processor, but for the call whose dispatch is still to come.
BatchFinishedDispatches ==
    Cardinality({p \in CallsOf("on_batch") : call_hist[p].raised = ""})
        - (IF pc = "batch_finished" THEN 1 ELSE 0)

\* C14: at every moment of run(), n_iters of the runner's state is the number
\* of BATCH_FINISHED dispatches made so far (hence M*N after an unstopped run
\* of M epochs over N batches).
C14_NItersCountsBatches ==
    impl = "run" => runner.state.n_iters = BatchFinishedDispatches

----------------------------------------------------------------------------
(* C15: the state dict that the handlers of rnnr/__init__.py are given *)

\* The calls of handlers.
HandlerCalls == {p \in 1..Len(LegacyHist) : LegacyHist[p].id > 0}

\* The epoch in progress at position p of the log: the number of
\* EPOCH_STARTED emissions made up to p.
EpochInProgress(p) ==
    Cardinality({q \in EmissionsOf("EPOCH_STARTED") : q <= p})

\* C15: at every call of a handler, state['epoch'] is the number of the epoch
\* in progress; state['batch'] is the batch being handled at BATCH_STARTED
\* and BATCH_FINISHED and None at EPOCH_STARTED and EPOCH_FINISHED, in every
\* epoch; state['output'] is the output of batch_fn for the batch at
\* BATCH_FINISHED and None at every other event.
C15_LegacyStateAtHandlers ==
    impl = "legacy" =>
        \A p \in HandlerCalls :
            LET c == LegacyHist[p]
                inbatch == c.ev \in {"BATCH_STARTED", "BATCH_FINISHED"}
            IN /\ c.epoch = EpochInProgress(p)
               /\ c.batch = IF inbatch THEN legacy.state.batches[c.bi + 1]
                            ELSE None
               /\ inbatch => c.batch # None
               /\ c.output = IF c.ev = "BATCH_FINISHED" THEN batch_fn(c.batch)
                             ELSE None
               /\ c.ev = "BATCH_FINISHED" => c.output # None

\* An EPOCH_STARTED handler has been called for epoch 2, after an epoch of two
\* batches, and a BATCH_STARTED handler for its second batch after the
\* BATCH_FINISHED handler of its first.
C15_Witness ==
    /\ impl = "legacy"
    /\ Len(legacy.state.batches) = 2
    /\ \E p, q, r \in HandlerCalls :
         /\ p < q /\ q < r
         /\ LegacyHist[p].ev = "BATCH_FINISHED" /\ LegacyHist[p].epoch = 1
         /\ LegacyHist[q].ev = "EPOCH_STARTED" /\ LegacyHist[q].epoch = 2
         /\ LegacyHist[r].ev = "BATCH_STARTED" /\ LegacyHist[r].epoch = 2
         /\ LegacyHist[r].bi = 1

----------------------------------------------------------------------------
(* C16: the _running flag after Runner.run of rnnr/__init__.py *)

\* C16: when run() has returned, the runner's running flag is False, whether
\* stop() was called or max_epoch was exhausted without it.
C16_NotRunningAfterRun ==
    (impl = "legacy" /\ legacy.pc = "done") => ~legacy.running

----------------------------------------------------------------------------
(* C17: what stop() and the stop function change *)

\* The entries that a step adds to a log.
Added(old, new) == (Len(old) + 1)..Len(new)

\* A step in which a handler or batch_fn calls stop() of rnnr/__init__.py
\* changes the flag and nothing else: _running is False after it, the
\* handlers are the same, the batches, the epoch and the batch of the state
\* are those the caller of stop() was given, and every handler of the emission
\* is called (up to one that raises), those after the caller of stop() with
\* the same epoch, batch and output as it.
LegacyStopStep ==
    \A p \in Added(legacy.hist, legacy.hist') :
        legacy.hist'[p].stop =>
            LET c == legacy.hist'[p]
            IN /\ ~legacy.running'
               /\ legacy.handlers' = legacy.handlers
               /\ legacy.state.batches' = legacy.state.batches
               /\ legacy.state.max_epoch' = legacy.state.max_epoch
               /\ legacy.state.epoch' = c.epoch
               /\ legacy.state.batch' = c.batch
               /\ c.ev \in LegacyEvents /\ legacy.pc' # "raised" =>
                    Len(legacy.hist') - Len(legacy.hist)
                        = 1 + Len(legacy.handlers[c.ev])
               /\ c.raised = ""
               /\ legacy.pc' = "raised" =>
                    /\ Len(legacy.hist') > p
                    /\ legacy.hist'[Len(legacy.hist')].raised = legacy.error'
               /\ legacy.pc' # "raised" => legacy.error' = legacy.error
               /\ \A q \in Added(legacy.hist, legacy.hist') :
                    q > p =>
                        /\ legacy.hist'[q].epoch = c.epoch
                        /\ legacy.hist'[q].batch = c.batch
                        /\ legacy.hist'[q].output = c.output

\* A step in which a callback or the processor of rnnr/runner.py calls the
\* stop function changes the flag and nothing else: _stopped is True after
\* it, both registries, max_epoch and the batches are the same, the call
\* raises nothing (if the step ends in an exception, a callback called after
\* it raised), the caller's return value and the processor's output are used
\* as without the stop, and the callbacks called after it in the dispatch are
\* given the same epoch and batch index.
RunnerStopStep ==
    \A p \in Added(call_hist, call_hist') :
        call_hist'[p].stop =>
            LET c == call_hist'[p]
            IN /\ stopped' = "yes"
               /\ callbacks_on' = callbacks_on
               /\ runner' = runner
               /\ max_epoch' = max_epoch
               /\ batches' = batches
               /\ c.raised = ""
               /\ pc' = "raised" =>
                    \E q \in Added(call_hist, call_hist') :
                        q > p /\ call_hist'[q].raised = error'
               /\ pc' # "raised" => error' = error
               /\ c.ev \notin {"BATCH_STARTED", "on_batch"} =>
                    (batch' = batch /\ boutput' = boutput)
               /\ c.ev = "on_batch" => (batch' = batch /\ boutput' = c.bo)
               /\ (c.ev = "BATCH_STARTED" /\ pc' # "raised") =>
                    /\ batch' = BatchReturned(callbacks_on["BATCH_STARTED"],
                                              batches[j + 1])
                    /\ Len(call_hist') - Len(call_hist)
                           = Len(callbacks_on["BATCH_STARTED"])
               /\ \A q \in Added(call_hist, call_hist') :
                    q > p => (call_hist'[q].epoch = c.epoch
                              /\ call_hist'[q].bi = c.bi)

\* C17: stop() of rnnr/__init__.py and the stop function of rnnr/runner.py
\* change only the runner's continuation flag: they raise nothing, leave the
\* registry and the current epoch, batch and output as they are, and the
\* callback that called them runs to its end.
C17_StopOnlySetsFlag == [][LegacyStopStep /\ RunnerStopStep]_vars

\* The first of two BATCH_STARTED handlers of rnnr/__init__.py called stop(),
\* the second was called after it, and run() has returned.
C17_Witness ==
    /\ impl = "legacy"
    /\ legacy.pc = "done"
    /\ Len(legacy.handlers["BATCH_STARTED"]) = 2
    /\ \E p \in 1..Len(LegacyHist) :
         /\ LegacyHist[p].stop
         /\ LegacyHist[p].ev = "BATCH_STARTED"
         /\ LegacyHist[p].id = legacy.handlers["BATCH_STARTED"][1]
         /\ p < Len(LegacyHist)
         /\ LegacyHist[p + 1].id = legacy.handlers["BATCH_STARTED"][2]

----------------------------------------------------------------------------
(* C18: an exception of a callback or of the processor ends run() *)

\* The entries of a log whose call raised.
Raisers(hist) == {p \in 1..Len(hist) : hist[p].raised # ""}

\* The call that raised is the last one made (nothing is called after it, it
\* is not called again), the run is over and the exception that left run() is
\* the one the call raised.
RaiseEndsRun(hist, at, err) ==
    \A p \in Raisers(hist) :
        /\ p = Len(hist)
        /\ at = "raised"
        /\ err = hist[p].raised

\* C18: when a callback or the processor raises during run(), of rnnr/runner.py
\* or of rnnr/__init__.py, that exception is the one that leaves run(), and no
\* call is made after the one that raised: no retry of it, no later callback
\* of the same event, nothing of a later event.
C18_RaisePropagates ==
    /\ impl = "run" => RaiseEndsRun(call_hist, pc, error)
    /\ impl = "legacy" => RaiseEndsRun(legacy.hist, legacy.pc, legacy.error)

\* The first of two EPOCH_STARTED callbacks raised in the first epoch of a run
\* over batches, with a FINISHED callback registered: the second
\* EPOCH_STARTED callback, the processor and the FINISHED callback were never
\* called.
C18_Witness ==
    /\ impl = "run"
    /\ pc = "raised"
    /\ error = UserError
    /\ Len(batches) > 0
    /\ Len(callbacks_on["EPOCH_STARTED"]) = 2
    /\ Len(callbacks_on["FINISHED"]) = 1
    /\ Raisers(call_hist) = {Len(call_hist)}
    /\ call_hist[Len(call_hist)].ev = "EPOCH_STARTED"
    /\ call_hist[Len(call_hist)].id = callbacks_on["EPOCH_STARTED"][1].id
    /\ CallsOf("FINISHED") = {}

----------------------------------------------------------------------------
(* C19: EPOCH_FINISHED callbacks of a wrong arity *)

\* An EPOCH_FINISHED callback with neither 1 nor 2 parameters is registered.
HasBadArity ==
    FirstBadArity(callbacks_on["EPOCH_FINISHED"])
        <= Len(callbacks_on["EPOCH_FINISHED"])

\* C19 as stated: with an EPOCH_FINISHED callback of a wrong arity registered,
\* no run() that entered an epoch returns normally (it fails with TypeError,
\* the mismatch is never skipped).
C19_BadArityAlwaysFails ==
    (impl = "run" /\ pc = "done" /\ i > 0) => ~HasBadArity

\* The step is a dispatch of EPOCH_FINISHED.
EpochFinishedDispatch ==
    impl = "run" /\ pc = "for" /\ j >= Len(batches)

\* One dispatch of EPOCH_FINISHED: call k of the dispatch is of callback k,
\* which has 1 or 2 parameters and is handed the stop function exactly when it
\* has 2, with the epoch as its first argument; a callback of a wrong arity
\* is reached, and TypeError then leaves run(), exactly when the dispatch was
\* entered with no stop requested and every callback before it returned
\* without requesting the stop; the dispatch ends normally with such a
\* callback registered only if the stop is requested.
ArityStep ==
    EpochFinishedDispatch =>
        LET cbs == callbacks_on["EPOCH_FINISHED"]
            bad == FirstBadArity(cbs)
            new == Added(call_hist, call_hist')
            n == Len(call_hist)
            reached == /\ stopped # "yes"
                       /\ bad <= Len(cbs)
                       /\ Len(call_hist') = n + bad - 1
                       /\ \A p \in new : /\ ~call_hist'[p].stop
                                         /\ call_hist'[p].raised = ""
        IN /\ \A p \in new :
                /\ p - n < bad
                /\ call_hist'[p].ev = "EPOCH_FINISHED"
                /\ call_hist'[p].id = cbs[p - n].id
                /\ call_hist'[p].epoch = EpochId(i)
                /\ cbs[p - n].nargs \in {1, 2}
                /\ call_hist'[p].got_stop = (cbs[p - n].nargs = 2)
           /\ reached <=> (pc' = "raised" /\ error' = "TypeError")
           /\ (pc' = "while" /\ bad <= Len(cbs)) => stopped' = "yes"

\* C19 (amended): an EPOCH_FINISHED callback of a wrong arity is never called;
\* run() fails with TypeError at the first EPOCH_FINISHED dispatch that gets
\* to it, which a dispatch does unless the stop was requested before the
\* callback's turn (or an earlier callback raised); callbacks with 2
\* parameters are given (epoch, stop function), those with 1 (epoch).
C19_BadArityFailsWhenReached == [][ArityStep]_vars

\* A callback with 2 parameters was called with the stop function, then the
\* dispatch got to one of a wrong arity and run() failed with TypeError.
C19_Witness ==
    /\ impl = "run"
    /\ pc = "raised"
    /\ error = "TypeError"
    /\ Len(callbacks_on["EPOCH_FINISHED"]) = 2
    /\ callbacks_on["EPOCH_FINISHED"][1].nargs = 2
    /\ callbacks_on["EPOCH_FINISHED"][2].nargs \notin {1, 2}
    /\ Len(call_hist) > 0
    /\ call_hist[Len(call_hist)].ev = "EPOCH_FINISHED"
    /\ call_hist[Len(call_hist)].got_stop
    /\ call_hist[Len(call_hist)].raised = ""

----------------------------------------------------------------------------
(* C20: run() called again on the same runner *)

\* A run() is in progress or over after an earlier run() on the runner.
RunningAgain == impl = "run" /\ prev_run.n > 0

\* C20: when run() is called again over the same batches, with callbacks that
\* behave as they did, the registry is the one of the previous run() and the
\* calls made are, one by one, those of the previous run(): the log of the new
\* run() is at every moment a prefix of the previous one and, when the new
\* run() is over, equal to it, with the same outcome.  A stop requested in the
\* previous run() is not in force: _reset is the first STARTED callback, and
\* after the STARTED dispatch the stopped flag is False unless a STARTED
\* callback of the new run() requested the stop.
C20_RerunRepeats ==
    RunningAgain =>
        /\ callbacks_on = prev_run.callbacks_on
        /\ callbacks_on["STARTED"][1].fn = "_reset"
        /\ IsPrefix(call_hist, prev_run.call_hist)
        /\ pc \in {"done", "raised"} =>
             /\ call_hist = prev_run.call_hist
             /\ pc = prev_run.pc
             /\ error = prev_run.error
        /\ (pc = "while" /\ i = 0 /\ ~StopRequested) => stopped = "no"

\* A run() of two epochs over batches was stopped by an EPOCH_FINISHED
\* callback in its first epoch; the second run() on the runner has returned
\* after the same calls.
C20_Witness ==
    /\ RunningAgain
    /\ pc = "done"
    /\ prev_run.pc = "done"
    /\ max_epoch = 2
    /\ Len(batches) > 0
    /\ callbacks_on["EPOCH_STARTED"] # <<>>
    /\ \E p \in CallsOf("EPOCH_FINISHED") :
         call_hist[p].stop /\ call_hist[p].epoch = 1
    /\ CallsOf("on_batch") # {}
    /\ call_hist = prev_run.call_hist

----------------------------------------------------------------------------
(* C21: a stopped run() continued by resume() *)

\* The calls of callback id of event ev, over run() and resume() together.
StateCallsOf(ev, id) ==
    {p \in 1..Len(StateHist) : StateHist[p].ev = ev /\ StateHist[p].id = id}

\* The calls in which a callback set state['running'] to False.
StateStops == {p \in 1..Len(StateHist) : StateHist[p].stop}

\* run() was stopped once, by the last callback of BATCH or of
\* EPOCH_FINISHED (no callback of the emission was left out), and resume()
\* without repeat_last_batch has returned without a further stop.
StoppedAndResumed ==
    /\ impl = "resume"
    /\ runner.pc = "done"
    /\ runner.runs = 2
    /\ ~runner.repeat_last_batch
    /\ \E p \in StateStops :
         /\ StateStops = {p}
         /\ StateHist[p].run = 1
         /\ StateHist[p].ev \in {"BATCH", "EPOCH_FINISHED"}
         /\ LET cbs == runner.callbacks[StateHist[p].ev]
            IN StateHist[p].id = cbs[Len(cbs)]

\* C21: over run() stopped by a BATCH callback at any batch (or by an
\* EPOCH_FINISHED callback) and resume() without repeat_last_batch together,
\* every BATCH callback is called N*M times and every EPOCH_FINISHED callback
\* M times, for N batches and max_epoch = M.
C21_ResumeCompletesRun ==
    StoppedAndResumed =>
        LET N == Len(runner.state.batches)
            M == runner.state.max_epoch
        IN /\ \A k \in 1..Len(runner.callbacks["BATCH"]) :
                Cardinality(StateCallsOf("BATCH", runner.callbacks["BATCH"][k]))
                    = N * M
           /\ \A k \in 1..Len(runner.callbacks["EPOCH_FINISHED"]) :
                Cardinality(StateCallsOf("EPOCH_FINISHED",
                                         runner.callbacks["EPOCH_FINISHED"][k]))
                    = M

----------------------------------------------------------------------------
(* C22: resume(repeat_last_batch=True) *)

\* The step is a call of resume() on a state with batches.
ResumeCalled ==
    /\ impl = "resume"
    /\ runner.pc = "done"
    /\ runner.runs' = runner.runs + 1
    /\ Len(runner.state.batches) > 0

\* The BATCH calls among the entries a step adds to the log.
NewBatchCalls ==
    {p \in Added(runner.hist, runner.hist') : runner.hist'[p].ev = "BATCH"}

\* A call of resume(): when the state was left in the middle of an epoch and
\* repeat_last_batch is set, BATCH is emitted once, before any batch is taken
\* from the iterator, with the state as the stop left it (its batch, epoch and
\* n_iters): its callbacks are called in order, each once, up to one that
\* sets running to False; n_iters and the iterator are as they were and
\* _run_epoch() follows for the batches that remain.  Otherwise no BATCH
\* callback is called by the call itself, and when n_iters is a multiple of
\* len(batches) resume() goes to the epoch loop, whatever the flag.
RepeatStep ==
    ResumeCalled =>
        LET st == runner.state
            cbs == runner.callbacks["BATCH"]
            mid == st.n_iters % Len(st.batches) # 0
            opened == {p \in Added(runner.hist, runner.hist') :
                         runner.hist'[p].ev \in
                             {"_ETIMER_STARTED", "_PBAR_CREATED"}}
            n == Len(runner.hist) + Cardinality(opened)
            B == NewBatchCalls
        IN /\ opened = Len(runner.hist) + 1..n
           /\ (mid /\ runner.repeat_last_batch') =>
                /\ B = {n + k : k \in 1..Cardinality(B)}
                /\ \A p \in B :
                     /\ runner.hist'[p].id = cbs[p - n]
                     /\ runner.hist'[p].by = "resume"
                     /\ runner.hist'[p].batch = st.batch
                     /\ runner.hist'[p].epoch = st.epoch
                     /\ runner.hist'[p].n_iters = st.n_iters
                /\ \/ Cardinality(B) = Len(cbs)
                   \/ /\ B # {}
                      /\ runner.hist'[n + Cardinality(B)].stop
           /\ ~(mid /\ runner.repeat_last_batch') => B = {}
           /\ runner.state.n_iters' = st.n_iters
           /\ runner.state.batches_iter' = st.batches_iter
           /\ runner.state.batch' = st.batch
           /\ runner.pc' = IF mid THEN "epoch" ELSE "epochs"
           /\ ~mid => runner.hist' = runner.hist

\* run() was stopped once, by the last BATCH callback at a batch that is not
\* the last of its epoch, and resume(repeat_last_batch=True) has returned
\* without a further stop.
StoppedMidEpochAndRepeated ==
    /\ impl = "resume"
    /\ runner.pc = "done"
    /\ runner.runs = 2
    /\ runner.repeat_last_batch
    /\ \E p \in StateStops :
         /\ StateStops = {p}
         /\ StateHist[p].run = 1
         /\ StateHist[p].ev = "BATCH"
         /\ StateHist[p].pos < Len(runner.state.batches)
         /\ StateHist[p].id =
                runner.callbacks["BATCH"][Len(runner.callbacks["BATCH"])]

\* Over both calls every BATCH callback is called N*M + 1 times, the one call
\* more being the one resume() makes itself, for the batch of the stop, before
\* _run_epoch() takes the next batch.
RepeatedOnce ==
    StoppedMidEpochAndRepeated =>
        LET N == Len(runner.state.batches)
            M == runner.state.max_epoch
            stop == CHOOSE p \in StateStops : TRUE
        IN \A k \in 1..Len(runner.callbacks["BATCH"]) :
             LET C == StateCallsOf("BATCH", runner.callbacks["BATCH"][k])
                 R == {p \in C : StateHist[p].by = "resume"}
             IN /\ Cardinality(C) = N * M + 1
                /\ Cardinality(R) = 1
                /\ \A p \in R :
                     /\ StateHist[p].run = 2
                     /\ StateHist[p].batch = StateHist[stop].batch
                     /\ StateHist[p].epoch = StateHist[stop].epoch
                     /\ \A q \in C : (q > stop /\ q # p) => q > p

----------------------------------------------------------------------------
(* C23: FINISHED at the end of resume() *)

\* The calls made by the r-th call of run() / resume().
CallsOfRun(r) == {p \in 1..Len(StateHist) : StateHist[p].run = r}

\* No FINISHED callback of the r-th call set state['running'] to False.
NoStopInFinished(r) ==
    \A p \in CallsOfRun(r) : StateHist[p].ev = "FINISHED" => ~StateHist[p].stop

\* C23: when resume() has returned, every FINISHED callback was called once
\* by it, after every other call it made, whether or not a callback (of
\* another event) set state['running'] to False during it.
C23_ResumeEmitsFinished ==
    (/\ impl = "resume"
     /\ runner.pc = "done"
     /\ runner.runs >= 2
     /\ NoStopInFinished(runner.runs)) =>
        \A k \in 1..Len(runner.callbacks["FINISHED"]) :
            LET F == {p \in CallsOfRun(runner.runs) :
                        /\ StateHist[p].ev = "FINISHED"
                        /\ StateHist[p].id = runner.callbacks["FINISHED"][k]}
            IN /\ Cardinality(F) = 1
               /\ \A p \in F : \A q \in CallsOfRun(runner.runs) :
                    StateHist[q].ev # "FINISHED" => q < p

----------------------------------------------------------------------------
(* C24: the result of a LambdaReducer / SumReducer at the end of an epoch *)

\* The left fold of the reduction function over a non-empty sequence.
RECURSIVE FoldLeft(_, _, _)
FoldLeft(lam, acc, vals) ==
    IF vals = <<>> THEN acc
    ELSE FoldLeft(lam, ApplyLambda(lam, acc, Head(vals)), Tail(vals))

Reduce(lam, vals) == FoldLeft(lam, Head(vals), Tail(vals))

\* The outputs the processor returned for the batches of epoch e, in order.
IsOutputOf(e, c) == c.ev = "on_batch" /\ c.epoch = e /\ c.raised = ""

OutputsOf(e) ==
    LET P == SelectSeq([p \in 1..Len(call_hist) |-> p],
                       LAMBDA p : IsOutputOf(e, call_hist[p]))
    IN [k \in 1..Len(P) |-> call_hist[P[k]].bo]

\* The epoch whose batches are all processed and which is the last one begun:
\* 0 if there is none.
EpochAtEnd ==
    IF pc = "for" /\ j >= Len(batches) THEN EpochId(i)
    ELSE IF pc \in {"while", "done"} THEN i
    ELSE 0

\* C24: with a LambdaReducer or SumReducer attached, at the end of every epoch
\* with at least one batch, result is the left fold of the reduction function
\* over value(output) of the outputs of that epoch's batches, in batch order;
\* nothing of an earlier epoch is in it.
C24_ReducerFoldsEpoch ==
    (/\ impl = "run"
     /\ attached.reducer.on
     /\ Len(batches) > 0
     /\ EpochAtEnd > 0) =>
        LET outs == OutputsOf(EpochAtEnd)
        IN /\ Len(outs) = Len(batches)
           /\ attached.reducer.result =
                  Reduce(attached.reducer.lambda,
                         [k \in 1..Len(outs) |-> GetValue(outs[k])])

\* The second epoch over two batches is at its end with a LambdaReducer
\* attached whose function is not commutative.
C24_Witness ==
    /\ impl = "run"
    /\ attached.reducer.on
    /\ attached.reducer.lambda = "twice_plus"
    /\ Len(batches) = 2
    /\ pc = "for"
    /\ j = 2
    /\ EpochAtEnd = 2
    /\ attached.reducer.result = 2 * (2 + 3) + (2 + 5)

----------------------------------------------------------------------------
(* C25: MeanReducer *)

\* C25: a MeanReducer can be had and attached to a runner (and then yields, at
\* the end of every epoch, the sum of the batch values over the sum of the
\* batch sizes): constructing one raises nothing.
C25_MeanReducerYieldsMean ==
    (impl = "run" /\ attached.mean # "none") =>
        /\ attached.mean = "constructed"
        /\ error # "TypeError"

----------------------------------------------------------------------------
(* C26: EarlyStopper of rnnr/attachments.py *)

\* The calls of _maybe_stop_early in the run() in progress that returned.
IsStopperCall(c) ==
    FnOf(c) = "EarlyStopper._maybe_stop_early" /\ c.raised = ""
StopperCalls == SelectSeq(call_hist, IsStopperCall)

\* STARTED of the run() in progress has called the EarlyStopper's _reset.
StopperStarted ==
    \E p \in 1..Len(call_hist) :
        FnOf(call_hist[p]) = "EarlyStopper._reset" /\ call_hist[p].raised = ""

\* The number of consecutive TRUE answers that end at the k-th.
RECURSIVE Streak(_, _)
Streak(asked, k) ==
    IF k = 0 \/ ~asked[k] THEN 0 ELSE 1 + Streak(asked, k - 1)

\* C26: an EarlyStopper with patience p attached to a runner is asked at the
\* end of the epochs of a run in turn, calls the stop function at the end of
\* an epoch exactly when that epoch ends a streak of more than p epochs for
\* which should_reduce_patience returned true, and has p less the length of
\* the streak in progress as its patience: the full patience after an epoch
\* for which should_reduce_patience returned false and after STARTED of
\* every run.
C26_StopsAfterStreak ==
    (impl = "run" /\ attached.stopper.on /\ StopperStarted) =>
        LET calls == StopperCalls
            asked == attached.stopper.asked
            patience == attached.stopper.orig_patience
        IN /\ Len(calls) = Len(asked)
           /\ \A k \in 1..Len(calls) :
                /\ calls[k].epoch = k
                /\ calls[k].stop <=> Streak(asked, k) > patience
           /\ attached.stopper.curr_patience =
                  patience - Streak(asked, Len(asked))

\* A second run of a runner whose EarlyStopper has a patience of one: the
\* first run left it out of patience, and the second is stopped at the end
\* of its second epoch, both epochs having reduced the patience.
C26_Witness ==
    /\ RunningAgain
    /\ attached.stopper.on
    /\ attached.stopper.orig_patience = 1
    /\ attached.stopper.asked = <<TRUE, TRUE>>
    /\ Len(StopperCalls) = 2
    /\ StopperCalls[2].stop
    /\ ~StopperCalls[1].stop

\* A patience of zero recovered: the first epoch did not reduce it, the
\* second did and stopped the run.
StopperRecovered ==
    /\ impl = "run"
    /\ attached.stopper.on
    /\ attached.stopper.orig_patience = 0
    /\ attached.stopper.asked = <<FALSE, TRUE>>
    /\ Len(StopperCalls) = 2
    /\ StopperCalls[2].stop

----------------------------------------------------------------------------
(* C27: EarlyStopper of rnnr/handlers.py *)

\* The best value before the k-th call, from the values of the calls alone:
\* none before the first, then the latest value that improved on it.
RECURSIVE BestBefore(_, _, _, _)
BestBefore(calls, k, mode, eps) ==
    IF k <= 1 THEN NoBest
    ELSE LET b == BestBefore(calls, k - 1, mode, eps)
         IN IF Improved(b, calls[k - 1].value, mode, eps)
            THEN <<calls[k - 1].value>>
            ELSE b

\* The number of consecutive calls ending at the k-th whose value did not
\* improve on the best value before them.
RECURSIVE BadStreak(_, _, _, _)
BadStreak(calls, k, mode, eps) ==
    IF k = 0 \/ Improved(BestBefore(calls, k, mode, eps), calls[k].value,
                         mode, eps)
    THEN 0
    ELSE 1 + BadStreak(calls, k - 1, mode, eps)

\* C27: an EarlyStopper calls stop() on a call exactly when the consecutive
\* calls ending at it whose value did not improve on best_value number more
\* than patience; its count is that number, zero after an improving value,
\* and best_value is the latest improving value.  stop() leaves the runner
\* not running.
C27_StopsWhenPatienceExceeded ==
    (impl = "handlers" /\ handlers.kind = "EarlyStopper") =>
        LET calls == handlers.calls
            m == handlers.mode
            eps == handlers.eps
        IN /\ \A k \in 1..Len(calls) :
                calls[k].stop <=>
                    BadStreak(calls, k, m, eps) > handlers.patience
           /\ handlers.n_bad_values = BadStreak(calls, Len(calls), m, eps)
           /\ handlers.best_value = BestBefore(calls, Len(calls) + 1, m, eps)
           /\ handlers.running <=> \A k \in 1..Len(calls) : ~calls[k].stop

\* With no patience: the first value is the best, the second does not
\* improve on it and stops the runner, the third neither and stops it again.
C27_Witness ==
    /\ impl = "handlers"
    /\ handlers.kind = "EarlyStopper"
    /\ handlers.patience = 0
    /\ handlers.mode = "min"
    /\ Len(handlers.calls) = 3
    /\ handlers.calls[1].value = Number(1)
    /\ handlers.calls[2].value = Number(2)
    /\ handlers.calls[3].value = Number(2)
    /\ ~handlers.calls[1].stop
    /\ handlers.calls[2].stop
    /\ handlers.calls[3].stop
    /\ handlers.n_bad_values = 2
    /\ handlers.best_value = <<Number(1)>>

----------------------------------------------------------------------------
(* C28: maybe_stop_early of rnnr/callbacks.py *)

\* The number of the first k calls for which state[check] was False.
RECURSIVE TimesFalse(_, _)
TimesFalse(calls, k) ==
    IF k = 0 THEN 0
    ELSE TimesFalse(calls, k - 1) + (IF calls[k].check THEN 0 ELSE 1)

\* The number of consecutive calls ending at the k-th for which state[check]
\* was False.
RECURSIVE FalseStreak(_, _)
FalseStreak(calls, k) ==
    IF k = 0 \/ calls[k].check THEN 0 ELSE 1 + FalseStreak(calls, k - 1)

\* The callback sets state['running'] to False on the calls after which the
\* counter exceeds patience, and leaves it as it was on the others.
StopsOnExceeding(calls, patience) ==
    \A k \in 1..Len(calls) :
        calls[k].running =
            (calls[k].was_running /\ ~(calls[k].counter > patience))

----------------------------------------------------------------------------
(* C29: the checkpoints a Checkpointer retains *)

\* The calls that saved a checkpoint.
SavingCalls(calls) == {k \in 1..Len(calls) : calls[k].saved}

\* The n most recent of them.
LastSaving(calls, n) ==
    {k \in SavingCalls(calls) :
        Cardinality({l \in SavingCalls(calls) : l > k}) < n}

\* The checkpoints retained in save_dir: the calls a file of which exists.
Retained(disk) == {f[1] : f \in disk}

\* Every call so far was given a checkpoint of the same filenames.
SameFilenames(calls) ==
    \A k, l \in 1..Len(calls) : calls[k].filenames = calls[l].filenames

\* C29: after every call of a Checkpointer with max_saved >= 0 the retained
\* checkpoints, those of the calls in the queue, are at most max_saved and
\* are those of the most recent saving calls, oldest first: when the bound
\* is exceeded the oldest is the one that leaves; the assertion at the end
\* of __call__ never fails.  With checkpoints of the same filenames, they
\* are the checkpoints that have files in save_dir.
C29_QueueRetainsLastSaved ==
    (impl = "handlers" /\ handlers.kind = "Checkpointer") =>
        /\ Len(handlers.deque) <= handlers.max_saved
        /\ {handlers.deque[p] : p \in 1..Len(handlers.deque)}
               = LastSaving(handlers.calls, handlers.max_saved)
        /\ \A p, q \in 1..Len(handlers.deque) :
               p < q => handlers.deque[p] < handlers.deque[q]
        /\ handlers.error = ""
        /\ SameFilenames(handlers.calls) =>
               Retained(handlers.disk)
                   = LastSaving(handlers.calls, handlers.max_saved)

\* Three calls of a Checkpointer with max_saved = 2 and no value key: all
\* three saved, the first checkpoint left the queue and is deleted.
C29_Witness ==
    /\ impl = "handlers"
    /\ handlers.kind = "Checkpointer"
    /\ handlers.value_key = NoKey
    /\ handlers.max_saved = 2
    /\ Len(handlers.calls) = 3
    /\ SameFilenames(handlers.calls)
    /\ handlers.deque = <<2, 3>>
    /\ Retained(handlers.disk) = {2, 3}

----------------------------------------------------------------------------
(* C30: a Checkpointer given a value key *)

\* C30: a Checkpointer given a value key saves on a call exactly when the
\* value of the call improves on the best value so far, the first call
\* always; best_value is the value of the latest such call; without a value
\* key every call saves and best_value stays None.  The checkpoints of the
\* last max_saved saving calls are retained: the queue holds those calls,
\* oldest first, and every file of theirs is in save_dir.
C30_SavesOnImprovement ==
    (impl = "handlers" /\ handlers.kind = "Checkpointer") =>
        LET calls == handlers.calls
            m == handlers.mode
            eps == handlers.eps
            last == LastSaving(calls, handlers.max_saved)
        IN /\ handlers.value_key # NoKey =>
                /\ \A k \in 1..Len(calls) :
                     calls[k].saved <=>
                         Improved(BestBefore(calls, k, m, eps),
                                  calls[k].value, m, eps)
                /\ Len(calls) > 0 => calls[1].saved
                /\ handlers.best_value =
                       BestBefore(calls, Len(calls) + 1, m, eps)
           /\ handlers.value_key = NoKey =>
                /\ \A k \in 1..Len(calls) : calls[k].saved
                /\ handlers.best_value = NoBest
           /\ {handlers.deque[p] : p \in 1..Len(handlers.deque)} = last
           /\ \A k \in last :
                \A name \in calls[k].filenames : <<k, name>> \in handlers.disk

\* With max_saved = 1 and the loss as the value: the first call saves, the
\* second has a greater loss and saves nothing, the third has a smaller one
\* and saves, and the checkpoint of the first is deleted.
C30_Witness ==
    /\ impl = "handlers"
    /\ handlers.kind = "Checkpointer"
    /\ handlers.value_key = "loss"
    /\ handlers.mode = "min"
    /\ handlers.max_saved = 1
    /\ Len(handlers.calls) = 3
    /\ handlers.calls[1].value = Number(1)
    /\ handlers.calls[2].value = Number(2)
    /\ handlers.calls[3].value = Number(0)
    /\ handlers.calls[1].saved
    /\ ~handlers.calls[2].saved
    /\ handlers.calls[3].saved
    /\ handlers.deque = <<3>>
    /\ handlers.best_value = <<Number(0)>>
    /\ Retained(handlers.disk) = {3}

----------------------------------------------------------------------------
(* C31: the events of EpochTimer and ProgressBar within an epoch *)

\* The place of an event in an epoch.
EpochRank(ev) ==
    CASE ev = "_ETIMER_STARTED" -> 1
      [] ev = "EPOCH_STARTED" -> 2
      [] ev = "_PBAR_CREATED" -> 3
      [] ev \in {"BATCH", "_PBAR_UPDATED"} -> 4
      [] ev = "_PBAR_CLOSED" -> 5
      [] ev = "EPOCH_FINISHED" -> 6
      [] ev = "_ETIMER_FINISHED" -> 7
      [] OTHER -> 0

\* Two calls of the same epoch of the same run() or resume().
SameEpoch(c, d) == c.run = d.run /\ c.epoch = d.epoch

\* The calls of event ev in the epoch of call c.
CallsInEpoch(c, ev) ==
    {p \in 1..Len(StateHist) :
        StateHist[p].ev = ev /\ SameEpoch(StateHist[p], c)}

----------------------------------------------------------------------------
(* C32: a stop requested while a batch is handled *)

\* The events of the handling of one batch.
BatchDispatches == {"BATCH_STARTED", "on_batch", "BATCH_FINISHED"}

\* C32: once the stop function has been invoked while batch k of epoch e is
\* being handled, no BATCH_STARTED callback is invoked for batch k+1 of
\* epoch e.
C32_NoBatchAfterStop ==
    impl = "run" =>
        \A p, q \in 1..Len(call_hist) :
            ~(/\ call_hist[p].ev \in BatchDispatches
              /\ call_hist[p].stop
              /\ call_hist[q].ev = "BATCH_STARTED"
              /\ call_hist[q].epoch = call_hist[p].epoch
              /\ call_hist[q].bi = call_hist[p].bi + 1)

----------------------------------------------------------------------------
(* C33: stop() during an emission of rnnr/__init__.py *)

\* The emissions in the log of the runner of rnnr/__init__.py.
LegacyEmissions ==
    {p \in 1..Len(legacy.hist) :
        legacy.hist[p].id = 0 /\ legacy.hist[p].ev \in LegacyEvents}

\* The k-th handler of the emission at p was called, with the state of the
\* emission.
HandlerCalled(p, k) ==
    /\ p + k <= Len(legacy.hist)
    /\ legacy.hist[p + k].ev = legacy.hist[p].ev
    /\ legacy.hist[p + k].id = legacy.handlers[legacy.hist[p].ev][k]
    /\ legacy.hist[p + k].epoch = legacy.hist[p].epoch
    /\ legacy.hist[p + k].batch = legacy.hist[p].batch

\* C33: every emission calls all the handlers of its event, in the order of
\* their registration, whether or not one of them calls stop(): a handler
\* that calls stop() is followed by the handlers registered after it.  Only a
\* handler that raises ends the emission, and run() with it.
C33_StopDoesNotCutEmission ==
    impl = "legacy" =>
        \A p \in LegacyEmissions :
            \A k \in 1..Len(legacy.handlers[legacy.hist[p].ev]) :
                \/ HandlerCalled(p, k)
                \/ /\ legacy.pc = "raised"
                   /\ Len(legacy.hist) < p + k
                   /\ legacy.hist[Len(legacy.hist)].raised # ""

\* The first of two EPOCH_STARTED handlers called stop() and the second was
\* called after it, neither raising.
C33_Witness ==
    /\ impl = "legacy"
    /\ \E p \in LegacyEmissions :
         /\ legacy.hist[p].ev = "EPOCH_STARTED"
         /\ Len(legacy.handlers["EPOCH_STARTED"]) = 2
         /\ HandlerCalled(p, 1)
         /\ HandlerCalled(p, 2)
         /\ legacy.hist[p + 1].stop
         /\ legacy.hist[p + 2].raised = ""
         /\ ~legacy.running

----------------------------------------------------------------------------
(* C34: a BATCH_STARTED callback that returns nothing *)

\* C34: a BATCH_STARTED callback that returns no value leaves the batch
\* unchanged: what is called next for the batch (the following BATCH_STARTED
\* callback, or the processor) receives the batch value that callback
\* received, and so do the BATCH_FINISHED callbacks when it is the last one.
C34_NoReturnKeepsBatch ==
    impl = "run" =>
        \A p \in 1..Len(call_hist) :
            (/\ call_hist[p].ev = "BATCH_STARTED"
             /\ call_hist[p].raised = ""
             /\ call_hist[p].ret = None
             /\ p < Len(call_hist)
             /\ call_hist[p + 1].ev \in {"BATCH_STARTED", "on_batch"}) =>
                call_hist[p + 1].b = call_hist[p].b

----------------------------------------------------------------------------
(* C35: the bars of ProgressBar *)

\* What ProgressBar keeps after the first k calls of the log.
RECURSIVE PbarAt(_)
PbarAt(k) ==
    IF k = 0 THEN NoPbar ELSE PbarAfter(PbarAt(k - 1), StateHist[k].id)

\* C35: at most one progress bar is open at any time, every bar created
\* being closed before another is created, also when a callback stops the
\* run in the middle of an epoch and resume() continues it; and
\* state['_pbar_n_items_so_far'] is present exactly while a bar is open.
C35_OneBarOpen ==
    impl = "resume" =>
        \A k \in 0..Len(StateHist) :
            /\ PbarAt(k).bars <= 1
            /\ PbarAt(k).key <=> PbarAt(k).bars = 1

----------------------------------------------------------------------------
(* C36: the files a Checkpointer leaves in save_dir *)

\* The files of the checkpoints in the queue.
FilesOfRetained(deque, calls) ==
    {f \in (1..Len(calls)) \X (UNION CheckpointKeys) :
        /\ \E p \in 1..Len(deque) : deque[p] = f[1]
        /\ f[2] \in calls[f[1]].filenames}

\* C36: after any sequence of calls the files present in save_dir are
\* exactly the files of the retained call numbers, also when successive
\* checkpoints do not have the same filenames: no file of a call number
\* that left the queue remains.
C36_DiskHoldsRetainedOnly ==
    (impl = "handlers" /\ handlers.kind = "Checkpointer") =>
        handlers.disk = FilesOfRetained(handlers.deque, handlers.calls)


----------------------------------------------------------------------------
(* C37: Runner.resume of rnnr/runner.py at the last epoch *)

\* n is a multiple of d: n = k * d for some k (0 is a multiple of 0).
MultipleOf(n, d) == \E k \in 0..n : n = k * d

\* resume() is called on a state whose epoch equals max_epoch and whose
\* n_iters is a multiple of len(batches).
ResumeAtLastEpoch ==
    /\ impl = "resume"
    /\ runner.pc = "done"
    /\ runner.runs' = runner.runs + 1
    /\ runner.state.epoch = runner.state.max_epoch
    /\ MultipleOf(runner.state.n_iters, Len(runner.state.batches))

\* Such a call goes past both epoch blocks without an emission, to the
\* emission of FINISHED.
ResumeGoesToFinished ==
    ResumeAtLastEpoch =>
        /\ runner.pc' = "epochs"
        /\ runner.hist' = runner.hist
        /\ runner.state.running'
        /\ ~EpochLoopContinues(runner.state')

\* Past the epoch loop FINISHED is emitted, to its callbacks only and from
\* the first one on while running is True, and running is left False.
FinishedEmitted ==
    (impl = "resume" /\ runner.pc = "epochs"
        /\ ~EpochLoopContinues(runner.state)) =>
        /\ runner.pc' = "done"
        /\ ~runner.state.running'
        /\ \A p \in Added(runner.hist, runner.hist') :
             runner.hist'[p].ev = "FINISHED"
        /\ (runner.state.running /\ runner.callbacks["FINISHED"] # <<>>) =>
             /\ Len(runner.hist') > Len(runner.hist)
             /\ runner.hist'[Len(runner.hist) + 1].id =
                    runner.callbacks["FINISHED"][1]

\* The epoch number changes by one, and to at most max_epoch.
EpochWithinMax ==
    (impl = "resume" /\ runner.state.epoch' # runner.state.epoch) =>
        /\ runner.state.epoch' <= runner.state.max_epoch'
        /\ \/ runner.state.epoch' = runner.state.epoch + 1
           \/ runner.pc = "idle"

\* C37: resume() never starts an epoch numbered above state['max_epoch'], and
\* on a state whose epoch equals max_epoch and whose n_iters is a multiple of
\* len(batches) it emits no EPOCH_STARTED, BATCH or EPOCH_FINISHED event,
\* emits FINISHED and leaves running False.
C37_ResumeAtLastEpochFinishes ==
    [][ResumeGoesToFinished /\ FinishedEmitted /\ EpochWithinMax]_vars


----------------------------------------------------------------------------
(* C38: Runner.run of rnnr/runner.py and of rnnr/__init__.py terminates *)

\* The statements of a call of run(): Python executes a call that was made
\* until it returns or raises.
RunSteps ==
    \/ run_callbacks_on_started
    \/ run_callbacks_on_epoch_started
    \/ run_callbacks_on_batch_started
    \/ on_batch
    \/ run_callbacks_on_batch_finished
    \/ run_callbacks_on_epoch_finished
    \/ run_callbacks_on_finished

LegacyRunSteps ==
    \/ emit_epoch_started
    \/ emit_batch_started
    \/ call_batch_fn
    \/ emit_batch_finished
    \/ emit_epoch_finished

\* Either Runner, with a call of run() that goes on once it is made.
InitTerminates == InitRun \/ InitLegacyRun

NextTerminates == NextRunner \/ NextLegacy

SpecTerminates ==
    /\ InitTerminates
    /\ [][NextTerminates]_vars
    /\ WF_vars(RunSteps)
    /\ WF_vars(LegacyRunSteps)

\* A call of run() is in progress; it has returned or raised.
RunInProgress ==
    \/ /\ impl = "run"
       /\ pc \in {"started", "while", "for", "on_batch", "batch_finished"}
    \/ /\ impl = "legacy"
       /\ legacy.pc \in {"epoch", "batch", "batch_fn", "batch_finished",
                          "epoch_finished"}

RunOver ==
    \/ impl = "run" /\ pc \in {"done", "raised"}
    \/ impl = "legacy" /\ legacy.pc \in {"done", "raised"}

\* The calls of the processor in the current call of run().
ProcessorCalls ==
    IF impl = "run"
    THEN {p \in 1..Len(call_hist) : call_hist[p].ev = "on_batch"}
    ELSE {p \in 1..Len(legacy.hist) : legacy.hist[p].ev = "batch_fn"}

\* The epochs entered by the current call of run() (the one a raise ended
\* is not counted once the call is over), M and N.
EpochsEntered ==
    IF impl = "run"
    THEN IF pc \in {"for", "on_batch", "batch_finished"} THEN i + 1 ELSE i
    ELSE legacy.epoch

RunMaxEpoch == IF impl = "run" THEN max_epoch ELSE legacy.state.max_epoch

RunLen == IF impl = "run" THEN Len(batches) ELSE Len(legacy.state.batches)

\* At most M epochs are entered and the processor is called at most M*N
\* times.
WithinBounds ==
    impl \in {"run", "legacy"} =>
        /\ EpochsEntered <= RunMaxEpoch
        /\ Cardinality(ProcessorCalls) <= RunMaxEpoch * RunLen

\* The emissions of the Runner of rnnr/__init__.py, in order.
EmissionSeq(hist) == SelectSeq(hist, LAMBDA c : c.id = 0 /\ c.ev # "batch_fn")

\* With no batch, the emissions of run() in rnnr/__init__.py are
\* EPOCH_STARTED and EPOCH_FINISHED in turn, epoch by epoch, and an epoch
\* whose EPOCH_FINISHED is not emitted yet is at the end of the empty loop or
\* was left by a raise.
LegacyEmptyEpochs ==
    (impl = "legacy" /\ Len(legacy.state.batches) = 0) =>
        LET es == EmissionSeq(legacy.hist)
        IN /\ \A p \in 1..Len(es) :
                /\ es[p].ev = IF p % 2 = 1 THEN "EPOCH_STARTED"
                              ELSE "EPOCH_FINISHED"
                /\ es[p].epoch = (p + 1) \div 2
           /\ Len(es) % 2 = 1 =>
                \/ legacy.pc = "raised"
                \/ legacy.pc = "batch" /\ legacy.pos >= Len(legacy.state.batches)

\* With no batch, run() of rnnr/runner.py goes from the EPOCH_STARTED
\* callbacks to the EPOCH_FINISHED callbacks of the same epoch: the step after
\* the first calls nothing but EPOCH_FINISHED callbacks of that epoch.
RunEmptyEpochs ==
    (impl = "run" /\ Len(batches) = 0) =>
        /\ pc' \notin {"on_batch", "batch_finished"}
        /\ pc = "for" =>
             /\ pc' \in {"while", "raised"}
             /\ \A p \in Added(call_hist, call_hist') :
                  /\ call_hist'[p].ev = "EPOCH_FINISHED"
                  /\ call_hist'[p].epoch = EpochId(i)

\* C38: run() terminates for every finite batch sequence of length N, every
\* max_epoch M >= 0 and callbacks that return (a call in progress returns, or
\* raises what a callback or the dispatch raised): it enters at most M epochs
\* and calls the processor at most M*N times; with N = 0 every epoch emits
\* EPOCH_STARTED directly followed by EPOCH_FINISHED and the processor is
\* never called.
C38_RunTerminates ==
    /\ RunInProgress ~> RunOver
    /\ [](WithinBounds /\ LegacyEmptyEpochs)
    /\ [][RunEmptyEpochs]_vars

\* run() over two batches for two epochs has returned after four calls of the
\* processor.
C38_Witness ==
    /\ impl = "run"
    /\ pc = "done"
    /\ max_epoch = 2
    /\ Len(batches) = 2
    /\ Cardinality(ProcessorCalls) = 4
    /\ i = 2

====
